---- MODULE Spec2Model ----
(***************************************************************************)
(* The scrape orchestration core of kiln: the ProgressTracker              *)
(* (internal/scraper/progress.go), the batch run ScrapeArticles            *)
(* (internal/scraper/scraper.go) and the two HTTP handlers that drive      *)
(* them, handleScrape and handleScrapeProgress (internal/server/server.go).*)
(*                                                                         *)
(* Every tracker method body that runs under pt.mu is one atomic step.     *)
(* UpdateStatus and UpdateProgress take the read lock, release it and only *)
(* then call Update, so each of them is two steps: the copy of pt.current  *)
(* and the Update of the modified copy.                                    *)
(***************************************************************************)
EXTENDS Integers, Sequences, FiniteSets, TLC

\* ---------------------------------------------------------------- bounds
MaxRuns == 2        \* ScrapeArticles goroutines handleScrape may start
MaxSubs == 2        \* /scrape/progress requests served
MaxLinks == 3       \* links the listing page may yield
OverlapLinks == 1   \* the same, while two runs may overlap
InterleavedLinks == 2   \* the length of the one listing of Interleaved
MaxCallers == 1     \* goroutines calling IncrementArticlesAdded
MaxCalls == 10      \* calls of IncrementArticlesAdded each of them makes
MaxResets == 1      \* calls of Reset
ResetLinks == 1     \* the length of the one listing of Resetting
RewatchedLinks == 1     \* the length of the one listing of Rewatched
RacingLinks == 1    \* the length of the one listing of Racing
RacingCalls == 2    \* calls of IncrementArticlesAdded during the run of Racing
MaxAnchors == 3     \* a[href] elements of a listing page
MaxDateElements == 2    \* selectors of extractDate that find an element
MaxArticleDateElements == 1     \* the same, on the page of scrapeArticle
MaxUsers == 2       \* goroutines calling initBrowser and Close
MaxBrowserCalls == 4    \* calls of initBrowser and Close each of them makes

\* ------------------------------------------------------ program constants
ChanCap == 10       \* make(chan ProgressUpdate, 10)

Runs == 1..MaxRuns
Subs == 1..MaxSubs
URLs == 1..MaxLinks
Callers == 1..MaxCallers

StatusStarting  == "starting"
StatusLoggingIn == "logging_in"
StatusScraping  == "scraping"
StatusCompleted == "completed"
StatusFailed    == "failed"
StatusCancelled == "cancelled"

Terminal == {StatusCompleted, StatusFailed, StatusCancelled}

\* The zero ProgressUpdate with the given status (Timestamp is not modelled:
\* no claim reads it).
ProgressUpdate(status, message, cur, total, added, id) ==
    [Status |-> status, Message |-> message, CurrentItem |-> cur,
     TotalItems |-> total, ArticlesAdded |-> added, NewArticleID |-> id]

NoUpdate == [Status |-> "none"]

Goroutines == 1..MaxUsers
NoInput == [fn |-> "none"]
NoOutput == [fn |-> "none"]

VARIABLES
    \* ProgressTracker
    current,        \* pt.current
    listeners,      \* pt.listeners: sequence of channel ids
    active,         \* pt.active
    chans,          \* channel id -> [buf, closed]
    \* database
    store,          \* url -> id of the stored article, 0 when absent
    nextID,         \* next value of the id SERIAL
    rows,           \* url -> number of rows of articles with that url
    \* one ScrapeArticles goroutine per run
    pc,             \* position in ScrapeArticles
    update,         \* the local `update` of UpdateStatus/UpdateProgress
    links,          \* articleLinks
    idx,            \* i of the loop (0-based)
    scrapedCount,
    articleID,      \* article.ID after CreateArticle
    cancelled,      \* ctx.Done() is closed
    ret,            \* returned count
    err,            \* returned error, "nil" when none
    \* handlers
    response,       \* last answer of handleScrape
    env,            \* what the surroundings may do (fixed by Init)
    spc,            \* position of each handleScrapeProgress
    \* other callers of the tracker
    caller,         \* per caller of IncrementArticlesAdded: position, the
                    \* local `update`, calls begun
    resets,         \* calls of Reset made
    \* functions of the scraper applied on their own
    input,          \* the function and its argument
    output,         \* its result, NoOutput before the call
    \* the browser of the Scraper
    browser,        \* s.browser: Nil or a pointer to a launched browser
    launched,       \* the browser processes launched so far, each live or not
    call,           \* per goroutine: its call of initBrowser or Close
    \* history
    gh,             \* per run: what it published and did
    sh              \* per subscriber: snapshot at Subscribe, first message read

vars == <<current, listeners, active, chans, store, nextID, rows, pc, update, links,
          idx, scrapedCount, articleID, cancelled, ret, err, response, env, spc,
          caller, resets, input, browser, launched, call, output, gh, sh>>

trackerVars == <<current, listeners, active, chans>>
runVars == <<pc, update, links, idx, scrapedCount, articleID, ret, err>>
handlerVars == <<response, env, spc, caller, resets, input, browser, launched, call, output>>
dbVars == <<store, nextID, rows>>

\* fmt.Sprintf: the format with its integer arguments
Sprintf(format, args) == <<format>> \o args

\* =================================================================
\* ProgressTracker (progress.go)
\* =================================================================

\* NewProgressTracker: status starting, every other field zero
NewProgressTracker == ProgressUpdate(StatusStarting, <<>>, 0, 0, 0, 0)

Registered(c) == \E k \in DOMAIN listeners : listeners[k] = c

TrySendFirst(ch, u) ==
    IF Len(ch.buf) < ChanCap THEN [ch EXCEPT !.buf = <<u>> \o @] ELSE ch

\* select { case listener <- update: default: }
TrySend(ch, u) ==
    IF Len(ch.buf) < ChanCap THEN [ch EXCEPT !.buf = Append(@, u)] ELSE ch

DeliverUntilFull(u) ==
    [c \in Subs |->
        IF /\ Registered(c)
           /\ \A k \in DOMAIN listeners :
                 (\E j \in DOMAIN listeners : j >= k /\ listeners[j] = c)
                    => Len(chans[listeners[k]].buf) < ChanCap
        THEN TrySend(chans[c], u) ELSE chans[c]]

\* the loop of Update over pt.listeners
Deliver(u) ==
    [c \in Subs |-> IF Registered(c) THEN TrySend(chans[c], u) ELSE chans[c]]

UpdateBlocking(u) ==
    /\ \A c \in Subs : Registered(c) => Len(chans[c].buf) < ChanCap
    /\ current' = u
    /\ chans' = Deliver(u)
    /\ UNCHANGED <<listeners, active>>

\* Update, under pt.mu.Lock
Update(u) ==
    /\ current' = u
    /\ chans' = Deliver(u)
    /\ UNCHANGED <<listeners, active>>

SubscribeChanEmpty(cur) == [buf |-> <<>>, closed |-> FALSE]

\* the channel Subscribe makes: capacity ChanCap, pt.current already in it
SubscribeChan(cur) == [buf |-> <<cur>>, closed |-> FALSE]

\* pt.listeners without ch (Unsubscribe removes the first match)
Remove(seq, ch) ==
    LET keep == {k \in DOMAIN seq : seq[k] # ch}
        F[k \in 0..Len(seq)] ==
            IF k = 0 THEN <<>>
            ELSE IF k \in keep THEN Append(F[k - 1], seq[k]) ELSE F[k - 1]
    IN F[Len(seq)]

IncrementLockedCopyFirst(c) ==
    /\ c <= env.callers
    /\ caller[c].pc = "idle"
    /\ caller[c].calls < env.calls
    /\ current' = [current EXCEPT !.ArticlesAdded = @ + 1]
    /\ caller' = [caller EXCEPT ![c] = [pc |-> "update", update |-> current,
                                        calls |-> @.calls + 1]]
    /\ UNCHANGED <<listeners, active, chans, dbVars, runVars, cancelled,
                   response, env, input, browser, launched, call, output, spc, resets, gh, sh>>

\* IncrementArticlesAdded, first half, under pt.mu.Lock:
\* pt.current.ArticlesAdded++; update := pt.current
IncrementLocked(c) ==
    /\ c <= env.callers
    /\ caller[c].pc = "idle"
    /\ caller[c].calls < env.calls
    /\ current' = [current EXCEPT !.ArticlesAdded = @ + 1]
    /\ caller' = [caller EXCEPT ![c] = [pc |-> "update", update |-> current',
                                        calls |-> @.calls + 1]]
    /\ UNCHANGED <<listeners, active, chans, dbVars, runVars, cancelled,
                   response, env, input, browser, launched, call, output, spc, resets, gh, sh>>

\* IncrementArticlesAdded, second half: pt.Update(update)
IncrementUpdate(c) ==
    /\ caller[c].pc = "update"
    /\ Update(caller[c].update)
    /\ caller' = [caller EXCEPT ![c].pc = "idle", ![c].update = NoUpdate]
    /\ UNCHANGED <<dbVars, runVars, cancelled, response, env, input, browser, launched, call, output, spc, resets, gh, sh>>

ResetKeepsActive ==
    /\ resets < env.resets
    /\ current' = ProgressUpdate(StatusStarting, <<>>, 0, 0, 0, 0)
    /\ chans' = [c \in Subs |-> IF Registered(c)
                                THEN [chans[c] EXCEPT !.closed = TRUE]
                                ELSE chans[c]]
    /\ listeners' = <<>>
    /\ resets' = resets + 1
    /\ UNCHANGED <<active, dbVars, runVars, cancelled, response, env, input, browser, launched, call, output, spc,
                   caller, gh, sh>>

ResetKeepsListeners ==
    /\ resets < env.resets
    /\ current' = ProgressUpdate(StatusStarting, <<>>, 0, 0, 0, 0)
    /\ active' = FALSE
    /\ chans' = [c \in Subs |-> IF Registered(c)
                                THEN [chans[c] EXCEPT !.closed = TRUE]
                                ELSE chans[c]]
    /\ listeners' = listeners
    /\ resets' = resets + 1
    /\ UNCHANGED <<dbVars, runVars, cancelled, response, env, input, browser, launched, call, output, spc, caller, gh, sh>>

\* Reset, under pt.mu.Lock: a fresh pt.current, pt.active = false, every
\* listener closed (what it buffers stays readable), an empty pt.listeners
Reset ==
    /\ resets < env.resets
    /\ current' = ProgressUpdate(StatusStarting, <<>>, 0, 0, 0, 0)
    /\ active' = FALSE
    /\ chans' = [c \in Subs |-> IF Registered(c)
                                THEN [chans[c] EXCEPT !.closed = TRUE]
                                ELSE chans[c]]
    /\ listeners' = <<>>
    /\ resets' = resets + 1
    /\ UNCHANGED <<dbVars, runVars, cancelled, response, env, input, browser, launched, call, output, spc, caller, gh, sh>>

\* =================================================================
\* handleScrapeProgress (server.go): Subscribe, stream, Unsubscribe
\* =================================================================

Subscribe(h) ==
    /\ spc[h] = "idle"
    /\ h <= env.subs
    /\ chans' = [chans EXCEPT ![h] = SubscribeChan(current)]
    /\ listeners' = Append(listeners, h)
    /\ spc' = [spc EXCEPT ![h] = "streaming"]
    /\ sh' = [sh EXCEPT ![h].snap = current]
    /\ UNCHANGED <<current, active, dbVars, runVars, cancelled, response, env, input, browser, launched, call, output,
                   caller, resets, gh>>

ReceiveKeepsStreaming(h) ==
    /\ spc[h] = "streaming"
    /\ chans[h].buf # <<>>
    /\ LET msg == Head(chans[h].buf) IN
        /\ chans' = [chans EXCEPT ![h].buf = Tail(@)]
        /\ sh' = [sh EXCEPT ![h].first = IF @ = NoUpdate THEN msg ELSE @]
        /\ spc' = spc
    /\ UNCHANGED <<current, listeners, active, dbVars, runVars, cancelled,
                   response, env, input, browser, launched, call, output, caller, resets, gh>>

\* case update, ok := <-updates (ok = true); return after a terminal status
Receive(h) ==
    /\ spc[h] = "streaming"
    /\ chans[h].buf # <<>>
    /\ LET msg == Head(chans[h].buf) IN
        /\ chans' = [chans EXCEPT ![h].buf = Tail(@)]
        /\ sh' = [sh EXCEPT ![h].first = IF @ = NoUpdate THEN msg ELSE @]
        /\ spc' = [spc EXCEPT ![h] =
                     IF msg.Status \in Terminal THEN "leaving" ELSE "streaming"]
    /\ UNCHANGED <<current, listeners, active, dbVars, runVars, cancelled,
                   response, env, input, browser, launched, call, output, caller, resets, gh>>

UnsubscribeChanLast(h) ==
    IF Registered(h)
    THEN /\ listeners' = SubSeq(listeners, 1, Len(listeners) - 1)
         /\ chans' = [chans EXCEPT ![h] = [buf |-> <<>>, closed |-> TRUE]]
    ELSE UNCHANGED <<listeners, chans>>

\* pt.Unsubscribe(ch): drop ch from pt.listeners and close it.  The handler
\* that owned ch has returned, so what ch still buffers is never read: the
\* closed channel is kept empty.
UnsubscribeChan(h) ==
    IF Registered(h)
    THEN /\ listeners' = Remove(listeners, h)
         /\ chans' = [chans EXCEPT ![h] = [buf |-> <<>>, closed |-> TRUE]]
    ELSE UNCHANGED <<listeners, chans>>

\* case <-ctx.Done(): the client went away; return, running the deferred
\* Unsubscribe
Disconnect(h) ==
    /\ spc[h] = "streaming"
    /\ UnsubscribeChan(h)
    /\ spc' = [spc EXCEPT ![h] = "gone"]
    /\ UNCHANGED <<current, active, dbVars, runVars, cancelled, response, env, input, browser, launched, call, output,
                   caller, resets, gh, sh>>

\* case update, ok := <-updates with ok = false: the channel is closed and
\* empty; return, running the deferred Unsubscribe
ReceiveClosed(h) ==
    /\ spc[h] = "streaming"
    /\ chans[h].buf = <<>>
    /\ chans[h].closed
    /\ UnsubscribeChan(h)
    /\ spc' = [spc EXCEPT ![h] = "gone"]
    /\ UNCHANGED <<current, active, dbVars, runVars, cancelled, response, env, input, browser, launched, call, output,
                   caller, resets, gh, sh>>

\* return after a terminal status, running the deferred Unsubscribe
Unsubscribe(h) ==
    /\ spc[h] = "leaving"
    /\ UnsubscribeChan(h)
    /\ spc' = [spc EXCEPT ![h] = "gone"]
    /\ UNCHANGED <<current, active, dbVars, runVars, cancelled, response, env, input, browser, launched, call, output,
                   caller, resets, gh, sh>>

\* =================================================================
\* ScrapeArticles (scraper.go)
\* =================================================================

\* What a run has published and done so far (history, read by the properties
\* only).
\*   last     the last update the run published, NoUpdate before the first
\*   term     the run has published a terminal status
\*   skipped  number of "already exists, skipping" events published
\*   present  indices whose URL was in the store when ArticleExists ran
\*   failed   indices whose lookup, extraction or insert failed
\*   interrupted  those of them whose lookup or insert failed on the
\*            cancelled ctx
\*   created  URLs the run inserted
\*   visited  indices the loop body ran for, in order
\*   fault    the step before the loop that failed, "none" when none did
\*   store0   the store when the run began
NewHistory ==
    [last |-> NoUpdate, term |-> FALSE, skipped |-> 0, present |-> {},
     failed |-> {}, interrupted |-> {}, created |-> {}, visited |-> <<>>,
     fault |-> "none", store0 |-> <<>>]

SkipFormat == "Article %d/%d already exists, skipping..."
CompletedFormat == "Completed! Added %d new articles."
CancelledFormat == "Operation cancelled. Scraped %d articles before cancellation."

Publish(h, u) ==
    [h EXCEPT !.last = u,
              !.term = @ \/ u.Status \in Terminal,
              !.skipped = IF u.Message # <<>> /\ u.Message[1] = SkipFormat
                          THEN @ + 1 ELSE @]

\* The UpdateStatus calls of ScrapeArticles: status, message, where the run
\* goes next, and the error of the return statement that follows it (the
\* count returned with it is the literal 0, or scrapedCount in the loop).
StatusSite(r) ==
    [starting    |-> [status |-> StatusStarting,
                      message |-> Sprintf("Initializing browser...", <<>>),
                      next |-> "initBrowser"],
     failBrowser |-> [status |-> StatusFailed,
                      message |-> Sprintf("Failed to initialize browser: %v", <<>>),
                      next |-> "return", err |-> "err"],
     loggingIn   |-> [status |-> StatusLoggingIn,
                      message |-> Sprintf("Logging into Gasetten...", <<>>),
                      next |-> "login"],
     failLogin   |-> [status |-> StatusFailed,
                      message |-> Sprintf("Login failed: %v", <<>>),
                      next |-> "return", err |-> "failed to login: %w"],
     cancelled1  |-> [status |-> StatusCancelled,
                      message |-> Sprintf("Operation cancelled by user", <<>>),
                      next |-> "return", err |-> "ctx.Err()"],
     scraping1   |-> [status |-> StatusScraping,
                      message |-> Sprintf("Loading article category page...", <<>>),
                      next |-> "page"],
     failPage    |-> [status |-> StatusFailed,
                      message |-> Sprintf("Failed to load category page", <<>>),
                      next |-> "return", err |-> "failed to create page: %w"],
     failLoad    |-> [status |-> StatusFailed,
                      message |-> Sprintf("Timeout waiting for category page", <<>>),
                      next |-> "return",
                      err |-> "timeout waiting for category page to load: %w"],
     scraping2   |-> [status |-> StatusScraping,
                      message |-> Sprintf("Extracting article links...", <<>>),
                      next |-> "extractLinks"],
     cancelled2  |-> [status |-> StatusCancelled,
                      message |-> Sprintf(CancelledFormat, <<scrapedCount[r]>>),
                      next |-> "return", err |-> "ctx.Err()"]]

StatusSites == {"starting", "failBrowser", "loggingIn", "failLogin", "cancelled1",
                "scraping1", "failPage", "failLoad", "scraping2", "cancelled2"}

\* The UpdateProgress calls of the loop: both pass i+1 and len(articleLinks).
ProgressSite(r) ==
    [processing |-> [message |-> Sprintf("Processing article %d/%d...",
                                         <<idx[r] + 1, Len(links[r])>>),
                     next |-> "exists"],
     skipping   |-> [message |-> Sprintf(SkipFormat,
                                         <<idx[r] + 1, Len(links[r])>>),
                     next |-> "continue"]]

ProgressSites == {"processing", "skipping"}

\* The Update calls of ScrapeArticles with a ProgressUpdate literal.
UpdateSite(r) ==
    [found     |-> [update |-> ProgressUpdate(StatusScraping,
                                   Sprintf("Found %d articles, starting to scrape...",
                                           <<Len(links[r])>>),
                                   0, Len(links[r]), 0, 0),
                    next |-> "loop"],
     saved     |-> [update |-> ProgressUpdate(StatusScraping,
                                   Sprintf("Saved article %d/%d (%d new)",
                                           <<idx[r] + 1, Len(links[r]), scrapedCount[r]>>),
                                   idx[r] + 1, Len(links[r]), scrapedCount[r],
                                   articleID[r]),
                    next |-> "continue"],
     completed |-> [update |-> ProgressUpdate(StatusCompleted,
                                   Sprintf(CompletedFormat,
                                           <<scrapedCount[r]>>),
                                   Len(links[r]), Len(links[r]), scrapedCount[r], 0),
                    next |-> "return"]]

UpdateSites == {"found", "saved", "completed"}

\* `continue` and the end of the loop body: i++ and back to the loop head
NextPc(next) == IF next = "continue" THEN "loop" ELSE next
NextIdx(r, next) == IF next = "continue" THEN idx[r] + 1 ELSE idx[r]

\* s.progress.SetActive(true)
SetActiveTrue(r) ==
    /\ pc[r] = "setActive"
    /\ active' = TRUE
    /\ pc' = [pc EXCEPT ![r] = "starting"]
    /\ gh' = [gh EXCEPT ![r].store0 = store]
    /\ UNCHANGED <<current, listeners, chans, dbVars, update, links, idx,
                   scrapedCount, articleID, ret, err, cancelled, handlerVars, sh>>

ReadCurrentFresh(r) ==
    /\ pc[r] \in StatusSites \cup ProgressSites
    /\ update[r] = NoUpdate
    /\ update' = [update EXCEPT ![r] = NewProgressTracker]
    /\ UNCHANGED <<trackerVars, dbVars, pc, links, idx, scrapedCount, articleID,
                   ret, err, cancelled, handlerVars, gh, sh>>

\* UpdateStatus / UpdateProgress, first half: update := pt.current under RLock
ReadCurrent(r) ==
    /\ pc[r] \in StatusSites \cup ProgressSites
    /\ update[r] = NoUpdate
    /\ update' = [update EXCEPT ![r] = current]
    /\ UNCHANGED <<trackerVars, dbVars, pc, links, idx, scrapedCount, articleID,
                   ret, err, cancelled, handlerVars, gh, sh>>

UpdateStatusReturnsOne(r) ==
    /\ pc[r] \in StatusSites
    /\ update[r] # NoUpdate
    /\ LET site == StatusSite(r)[pc[r]]
           u == [update[r] EXCEPT !.Status = site.status, !.Message = site.message]
       IN /\ Update(u)
          /\ gh' = [gh EXCEPT ![r] = Publish(gh[r], u)]
          /\ pc' = [pc EXCEPT ![r] = site.next]
          /\ ret' = [ret EXCEPT ![r] = IF pc[r] = "cancelled2" THEN scrapedCount[r] ELSE 1]
          /\ err' = [err EXCEPT ![r] = IF site.next = "return" THEN site.err ELSE @]
    /\ update' = [update EXCEPT ![r] = NoUpdate]
    /\ UNCHANGED <<dbVars, links, idx, scrapedCount, articleID, cancelled,
                   handlerVars, sh>>

\* UpdateStatus, second half: set Status and Message, pt.Update(update)
UpdateStatus(r) ==
    /\ pc[r] \in StatusSites
    /\ update[r] # NoUpdate
    /\ LET site == StatusSite(r)[pc[r]]
           u == [update[r] EXCEPT !.Status = site.status, !.Message = site.message]
       IN /\ Update(u)
          /\ gh' = [gh EXCEPT ![r] = Publish(gh[r], u)]
          /\ pc' = [pc EXCEPT ![r] = site.next]
          /\ ret' = [ret EXCEPT ![r] = IF pc[r] = "cancelled2" THEN scrapedCount[r] ELSE 0]
          /\ err' = [err EXCEPT ![r] = IF site.next = "return" THEN site.err ELSE @]
    /\ update' = [update EXCEPT ![r] = NoUpdate]
    /\ UNCHANGED <<dbVars, links, idx, scrapedCount, articleID, cancelled,
                   handlerVars, sh>>

\* UpdateProgress, second half: set CurrentItem, TotalItems and Message
UpdateProgress(r) ==
    /\ pc[r] \in ProgressSites
    /\ update[r] # NoUpdate
    /\ LET site == ProgressSite(r)[pc[r]]
           u == [update[r] EXCEPT !.CurrentItem = idx[r] + 1,
                                  !.TotalItems = Len(links[r]),
                                  !.Message = site.message]
       IN /\ Update(u)
          /\ gh' = [gh EXCEPT ![r] = Publish(gh[r], u)]
          /\ pc' = [pc EXCEPT ![r] = NextPc(site.next)]
          /\ idx' = [idx EXCEPT ![r] = NextIdx(r, site.next)]
    /\ update' = [update EXCEPT ![r] = NoUpdate]
    /\ UNCHANGED <<dbVars, links, scrapedCount, articleID, ret, err, cancelled,
                   handlerVars, sh>>

\* s.progress.Update(ProgressUpdate{...})
UpdateLiteral(r) ==
    /\ pc[r] \in UpdateSites
    /\ LET site == UpdateSite(r)[pc[r]]
       IN /\ Update(site.update)
          /\ gh' = [gh EXCEPT ![r] = Publish(gh[r], site.update)]
          /\ pc' = [pc EXCEPT ![r] = NextPc(site.next)]
          /\ idx' = [idx EXCEPT ![r] = NextIdx(r, site.next)]
          /\ ret' = [ret EXCEPT ![r] = IF pc[r] = "completed" THEN scrapedCount[r] ELSE @]
          /\ err' = [err EXCEPT ![r] = "nil"]
    /\ UNCHANGED <<dbVars, update, links, scrapedCount, articleID, cancelled,
                   handlerVars, sh>>

\* Steps of ScrapeArticles that touch neither the tracker nor the store.
Local(r, next) ==
    /\ pc' = [pc EXCEPT ![r] = next]
    /\ UNCHANGED <<trackerVars, dbVars, update, links, idx, scrapedCount,
                   articleID, ret, err, cancelled, handlerVars, sh, gh>>

FailsUnpublished(r, fault, next) ==
    /\ env.faults
    /\ pc' = [pc EXCEPT ![r] = "return"]
    /\ gh' = [gh EXCEPT ![r].fault = fault]
    /\ UNCHANGED <<trackerVars, dbVars, update, links, idx, scrapedCount,
                   articleID, ret, err, cancelled, handlerVars, sh>>

\* A step before the loop fails.
Fails(r, fault, next) ==
    /\ env.faults
    /\ pc' = [pc EXCEPT ![r] = next]
    /\ gh' = [gh EXCEPT ![r].fault = fault]
    /\ UNCHANGED <<trackerVars, dbVars, update, links, idx, scrapedCount,
                   articleID, ret, err, cancelled, handlerVars, sh>>

\* s.initBrowser(): nil or a launch/connect error
InitBrowser(r) ==
    /\ pc[r] = "initBrowser"
    /\ \/ Local(r, "loggingIn")
       \/ Fails(r, "launch", "failBrowser")

\* s.Login(ctx): nil or an error
Login(r) ==
    /\ pc[r] = "login"
    /\ \/ Local(r, "cancelCheck")
       \/ Fails(r, "login", "failLogin")

CancelCheckIgnored(r) ==
    /\ pc[r] = "cancelCheck"
    /\ Local(r, "scraping1")

\* select { case <-ctx.Done(): ... default: } after the login
CancelCheck(r) ==
    /\ pc[r] = "cancelCheck"
    /\ Local(r, IF cancelled[r] THEN "cancelled1" ELSE "scraping1")

\* s.browser.Page(...)
Page(r) ==
    /\ pc[r] = "page"
    /\ \/ Local(r, "waitLoad")
       \/ Fails(r, "page", "failPage")

\* page.WaitLoad() under PageTimeout
WaitLoad(r) ==
    /\ pc[r] = "waitLoad"
    /\ \/ Local(r, "scraping2")
       \/ Fails(r, "load", "failLoad")

\* What extractArticleLinks may hand to the loop: the duplicate-free
\* sequences of at most n of the URLs 1..n.
RECURSIVE Lists(_, _)
Lists(n, len) ==
    IF len = 0 THEN {<<>>}
    ELSE LET shorter == Lists(n, len - 1)
         IN shorter \cup {Append(l, u) : l \in {m \in shorter : Len(m) = len - 1},
                                         u \in 1..n}

NoDup(l) == \A a, b \in DOMAIN l : a # b => l[a] # l[b]

LinkLists(n) == {l \in Lists(n, n) : NoDup(l)}

\* articleLinks := s.extractArticleLinks(page): the links of the page, or,
\* when page.Elements fails, nil links: extractArticleLinks logs the error
\* and its caller has none to test
ExtractLinks(r) ==
    /\ pc[r] = "extractLinks"
    /\ \/ /\ \E l \in env.pages : links' = [links EXCEPT ![r] = l]
          /\ pc' = [pc EXCEPT ![r] = "found"]
          /\ gh' = gh
       \/ /\ env.faults
          /\ links' = [links EXCEPT ![r] = <<>>]
          /\ pc' = [pc EXCEPT ![r] = "found"]
          /\ gh' = [gh EXCEPT ![r].fault = "enumerate"]
    /\ UNCHANGED <<trackerVars, dbVars, update, idx, scrapedCount, articleID,
                   ret, err, cancelled, handlerVars, sh>>

\* for i, link := range articleLinks, then the cancellation check
Loop(r) ==
    /\ pc[r] = "loop"
    /\ IF idx[r] >= Len(links[r])
       THEN /\ pc' = [pc EXCEPT ![r] = "completed"]
            /\ gh' = gh
       ELSE IF cancelled[r]
       THEN /\ pc' = [pc EXCEPT ![r] = "cancelled2"]
            /\ gh' = gh
       ELSE /\ pc' = [pc EXCEPT ![r] = "processing"]
            /\ gh' = [gh EXCEPT ![r].visited = Append(@, idx[r] + 1)]
    /\ UNCHANGED <<trackerVars, dbVars, update, links, idx, scrapedCount,
                   articleID, ret, err, cancelled, handlerVars, sh>>

Link(r) == links[r][idx[r] + 1]

ItemFailsBreaks(r) ==
    /\ env.faults
    /\ pc' = [pc EXCEPT ![r] = "completed"]
    /\ gh' = [gh EXCEPT ![r].failed = @ \cup {idx[r] + 1}]
    /\ UNCHANGED <<trackerVars, dbVars, update, links, idx, scrapedCount,
                   articleID, ret, err, cancelled, handlerVars, sh>>

\* an item fails: log and continue
ItemFails(r) ==
    /\ env.faults
    /\ pc' = [pc EXCEPT ![r] = "loop"]
    /\ idx' = [idx EXCEPT ![r] = @ + 1]
    /\ gh' = [gh EXCEPT ![r].failed = @ \cup {idx[r] + 1}]
    /\ UNCHANGED <<trackerVars, dbVars, update, links, scrapedCount, articleID,
                   ret, err, cancelled, handlerVars, sh>>

\* A query of the store made with a ctx that is cancelled returns the
\* error of the ctx: log and continue, as for every failed item.
ItemCancelled(r) ==
    /\ cancelled[r]
    /\ pc' = [pc EXCEPT ![r] = "loop"]
    /\ idx' = [idx EXCEPT ![r] = @ + 1]
    /\ gh' = [gh EXCEPT ![r].failed = @ \cup {idx[r] + 1},
                        ![r].interrupted = @ \cup {idx[r] + 1}]
    /\ UNCHANGED <<trackerVars, dbVars, update, links, scrapedCount, articleID,
                   ret, err, cancelled, handlerVars, sh>>

ArticleExistsNegated(url) == store[url] = 0

\* SELECT EXISTS(SELECT 1 FROM articles WHERE url = $1)
ArticleExists(url) == store[url] # 0

\* exists, err := s.db.ArticleExists(ctx, link)
Exists(r) ==
    /\ pc[r] = "exists"
    /\ \/ ItemFails(r)
       \/ ItemCancelled(r)
       \/ /\ pc' = [pc EXCEPT ![r] = IF ArticleExists(Link(r)) THEN "skipping"
                                     ELSE "scrape"]
          /\ gh' = [gh EXCEPT ![r].present =
                       IF store[Link(r)] # 0 THEN @ \cup {idx[r] + 1} ELSE @]
          /\ UNCHANGED <<trackerVars, dbVars, update, links, idx, scrapedCount,
                         articleID, ret, err, cancelled, handlerVars, sh>>

\* article, err := s.scrapeArticle(ctx, link)
ScrapeArticle(r) ==
    /\ pc[r] = "scrape"
    /\ \/ ItemFails(r)
       \/ /\ pc' = [pc EXCEPT ![r] = "create"]
          /\ UNCHANGED <<trackerVars, dbVars, update, links, idx, scrapedCount,
                         articleID, ret, err, cancelled, handlerVars, sh, gh>>

CreateArticleUncounted(r) ==
    /\ pc[r] = "create"
    /\ \/ ItemFails(r)
       \/ /\ store[Link(r)] = 0
          /\ store' = [store EXCEPT ![Link(r)] = nextID]
          /\ nextID' = nextID + 1
          /\ rows' = [rows EXCEPT ![Link(r)] = @ + 1]
          /\ articleID' = [articleID EXCEPT ![r] = nextID]
          /\ gh' = [gh EXCEPT ![r].created = @ \cup {Link(r)}]
          /\ pc' = [pc EXCEPT ![r] = "saved"]
          /\ UNCHANGED <<trackerVars, update, links, idx, scrapedCount, ret,
                         err, cancelled, handlerVars, sh>>

CreateArticleNotUnique(r) ==
    /\ pc[r] = "create"
    /\ \/ ItemFails(r)
       \/ /\ store' = [store EXCEPT ![Link(r)] = nextID]
          /\ nextID' = nextID + 1
          /\ rows' = [rows EXCEPT ![Link(r)] = @ + 1]
          /\ articleID' = [articleID EXCEPT ![r] = nextID]
          /\ scrapedCount' = [scrapedCount EXCEPT ![r] = @ + 1]
          /\ gh' = [gh EXCEPT ![r].created = @ \cup {Link(r)}]
          /\ pc' = [pc EXCEPT ![r] = "saved"]
          /\ UNCHANGED <<trackerVars, update, links, idx, ret, err, cancelled,
                         handlerVars, sh>>

\* s.db.CreateArticle(ctx, article); scrapedCount++.  The INSERT fails on a
\* url already stored (url TEXT UNIQUE NOT NULL) and may fail for any other
\* reason.
CreateArticle(r) ==
    /\ pc[r] = "create"
    /\ \/ ItemFails(r)
       \/ ItemCancelled(r)
       \/ /\ store[Link(r)] = 0
          /\ store' = [store EXCEPT ![Link(r)] = nextID]
          /\ nextID' = nextID + 1
          /\ rows' = [rows EXCEPT ![Link(r)] = @ + 1]
          /\ articleID' = [articleID EXCEPT ![r] = nextID]
          /\ scrapedCount' = [scrapedCount EXCEPT ![r] = @ + 1]
          /\ gh' = [gh EXCEPT ![r].created = @ \cup {Link(r)}]
          /\ pc' = [pc EXCEPT ![r] = "saved"]
          /\ UNCHANGED <<trackerVars, update, links, idx, ret, err, cancelled,
                         handlerVars, sh>>

ReturnLeavesActive(r) ==
    /\ pc[r] = "return"
    /\ pc' = [pc EXCEPT ![r] = "done"]
    /\ UNCHANGED <<trackerVars, dbVars, update, links, idx, scrapedCount,
                   articleID, ret, err, cancelled, handlerVars, gh, sh>>

\* return, running the deferred s.progress.SetActive(false)
Return(r) ==
    /\ pc[r] = "return"
    /\ active' = FALSE
    /\ pc' = [pc EXCEPT ![r] = "done"]
    /\ UNCHANGED <<current, listeners, chans, dbVars, update, links, idx,
                   scrapedCount, articleID, ret, err, cancelled, handlerVars, gh, sh>>

\* the caller cancels ctx
Cancel(r) ==
    /\ env.faults
    /\ pc[r] \notin {"idle", "done"}
    /\ ~cancelled[r]
    /\ cancelled' = [cancelled EXCEPT ![r] = TRUE]
    /\ UNCHANGED <<trackerVars, dbVars, runVars, handlerVars, gh, sh>>

\* =================================================================
\* handleScrape (server.go)
\* =================================================================

IsActiveNever == FALSE

\* pt.IsActive()
IsActive == active

\* POST /scrape: refuse while a scrape is active, else start ScrapeArticles in
\* a goroutine of its own.  The goroutine sets the active flag itself, in
\* its first step (SetActiveTrue).  Where env.overlap is FALSE the request
\* comes only when no run is in progress.
HandleScrape ==
    /\ env.overlap \/ \A q \in Runs : pc[q] \in {"idle", "done"}
    /\ IF IsActive
       THEN /\ response' = "busy"
            /\ UNCHANGED <<trackerVars, dbVars, runVars, cancelled, env, input, browser, launched, call, output, caller,
                           resets, spc, gh, sh>>
       ELSE /\ \E r \in Runs :
                 /\ r <= env.runs
                 /\ pc[r] = "idle"
                 /\ \A q \in Runs : q < r => pc[q] # "idle"
                 /\ pc' = [pc EXCEPT ![r] = "setActive"]
            /\ response' = "started"
            /\ UNCHANGED <<trackerVars, dbVars, update, links, idx, scrapedCount,
                           articleID, ret, err, cancelled, env, input, browser, launched, call, output, caller, resets,
                           spc, gh, sh>>

\* =================================================================
\* extractArticleLinks (scraper.go)
\* =================================================================

\* A string is a sequence of words: "/", "#", the origin without its final
\* slash, and path words.  No word of the alphabet is part of another, so
\* prefix, suffix and substring tests on the strings are tests on words.
Origin == "https://gasetten.se"
SiteRoot == <<Origin, "/">>

\* strings.HasPrefix, strings.HasSuffix, strings.Contains
HasPrefix(str, prefix) ==
    Len(str) >= Len(prefix) /\ SubSeq(str, 1, Len(prefix)) = prefix
HasSuffix(str, suffix) ==
    Len(str) >= Len(suffix)
       /\ SubSeq(str, Len(str) - Len(suffix) + 1, Len(str)) = suffix
Contains(str, substr) ==
    \E i \in 1..(Len(str) - Len(substr) + 1) :
       SubSeq(str, i, i + Len(substr) - 1) = substr

\* strings.TrimPrefix, strings.TrimSuffix: at most one occurrence is cut
TrimPrefix(str, prefix) ==
    IF HasPrefix(str, prefix) THEN SubSeq(str, Len(prefix) + 1, Len(str)) ELSE str
TrimSuffix(str, suffix) ==
    IF HasSuffix(str, suffix) THEN SubSeq(str, 1, Len(str) - Len(suffix)) ELSE str

\* strings.Split(str, "/"): the pieces between the separators, empty pieces
\* included; one piece more than there are separators
RECURSIVE Split(_, _)
Split(str, sep) ==
    IF \A i \in DOMAIN str : str[i] # sep
    THEN <<str>>
    ELSE LET i == CHOOSE j \in DOMAIN str :
                     str[j] = sep /\ \A k \in 1..(j - 1) : str[k] # sep
         IN <<SubSeq(str, 1, i - 1)>> \o Split(SubSeq(str, i + 1, Len(str)), sep)

\* the "Skip non-article pages" test of lines 399-415
NonArticle(url) ==
    \/ \E word \in {"author", "tag", "category", "page", "wp-content"} :
          Contains(url, <<"/", word, "/">>)
    \/ \E word \in {"wp-login", "min-profil", "about", "arkiv", "stotta-oss",
                     "annonsera", "registrera", "kop-plus"} :
          Contains(url, <<"/", word>>)
    \/ HasSuffix(url, <<Origin, "/">>)
    \/ HasSuffix(url, <<Origin, "/", "#">>)

\* relative URLs are made absolute
Absolute(href) == IF HasPrefix(href, <<"/">>) THEN <<Origin>> \o href ELSE href

\* the parts of line 420
Parts(url) == Split(TrimPrefix(TrimSuffix(url, <<"/">>), SiteRoot), "/")

\* one turn of the loop over the elements: acc is [links, seen]; an
\* element whose href is missing is NoHref
NoHref == <<>>
Accepts(url) ==
    /\ HasPrefix(url, SiteRoot)
    /\ ~NonArticle(url)
    /\ Len(Parts(url)) >= 2

ExtractStepNoSeen(acc, href) ==
    LET url == Absolute(href) IN
    IF href = NoHref \/ ~Accepts(url)
    THEN acc
    ELSE [links |-> Append(acc.links, url), seen |-> acc.seen \cup {url}]

ExtractStep(acc, href) ==
    LET url == Absolute(href) IN
    IF href = NoHref \/ ~Accepts(url) \/ url \in acc.seen
    THEN acc
    ELSE [links |-> Append(acc.links, url), seen |-> acc.seen \cup {url}]

\* extractArticleLinks over the elements page.Elements returned
RECURSIVE ExtractFrom(_, _)
ExtractFrom(acc, elements) ==
    IF elements = <<>> THEN acc.links
    ELSE ExtractFrom(ExtractStep(acc, Head(elements)), Tail(elements))

extractArticleLinks(elements) == ExtractFrom([links |-> <<>>, seen |-> {}], elements)

\* the call on its own
ApplyExtractArticleLinks ==
    /\ input.fn = "extractArticleLinks"
    /\ output = NoOutput
    /\ output' = [fn |-> "extractArticleLinks",
                  links |-> extractArticleLinks(input.elements)]
    /\ UNCHANGED <<trackerVars, dbVars, runVars, cancelled, response, env, spc,
                   caller, resets, input, browser, launched, call, gh, sh>>

\* The href attributes of the listing pages: an element without href, an
\* article, the same article as a relative link, an article with a final
\* slash, an article of another site, a top-level page, top-level pages
\* with a doubled slash before and after the word, a category page, and
\* the home page.
Hrefs ==
    { NoHref,
      <<Origin, "/", "malmo-ff", "/", "slug">>,
      <<"/", "malmo-ff", "/", "slug">>,
      <<Origin, "/", "blogg", "/", "slug", "/">>,
      <<"https://example.com", "/", "malmo-ff", "/", "slug">>,
      <<Origin, "/", "malmo-ff">>,
      <<Origin, "/", "/", "malmo-ff">>,
      <<Origin, "/", "malmo-ff", "/", "/">>,
      <<Origin, "/", "category", "/", "malmo-ff", "/">>,
      <<Origin, "/">> }

\* the listings of at most n elements
Anchors(n) == UNION {[1..k -> Hrefs] : k \in 0..n}

\* =================================================================
\* extractDate (scraper.go)
\* =================================================================

\* A pointer is the sequence of what it points to; nil is the empty one.
Nil == <<>>
Ref(x) == <<x>>

RFC3339 == "2006-01-02T15:04:05Z07:00"

\* the selectors, the layouts tried on a datetime attribute and the
\* layouts tried on the text, each in the order of the slice literal
Selectors ==
    << "time.post-date[datetime]", "time.entry-date[datetime]", "time[datetime]",
       "meta[property=article:published_time]", ".post-date", "[class*=date]" >>
DatetimeFormats == <<RFC3339, "2006-01-02", "2006-01-02T15:04:05">>
TextFormats ==
    <<"2 January 2006", "2 January, 2006", "January 2, 2006", "2006-01-02",
      "02 Jan 2006">>

\* The strings of the pages, each with the layouts time.Parse accepts it
\* under and the day it then denotes.  "09 May 2025" has a two-digit day
\* and a month whose long and short names are the same word.
DateStrings ==
    [ s01 |-> [text |-> "2025-11-01T10:00:00Z", layouts |-> {RFC3339}, day |-> 1],
      s02 |-> [text |-> "2025-11-02", layouts |-> {"2006-01-02"}, day |-> 2],
      s03 |-> [text |-> "2025-11-03T10:00:00", layouts |-> {"2006-01-02T15:04:05"},
               day |-> 3],
      s04 |-> [text |-> "2025-11-04T10:00:00Z", layouts |-> {RFC3339}, day |-> 4],
      s05 |-> [text |-> "5 November 2025", layouts |-> {"2 January 2006"}, day |-> 5],
      s06 |-> [text |-> "5 November, 2025", layouts |-> {"2 January, 2006"}, day |-> 5],
      s07 |-> [text |-> "November 7, 2025", layouts |-> {"January 2, 2006"}, day |-> 7],
      s08 |-> [text |-> "November 7 2025", layouts |-> {}, day |-> 0],
      s09 |-> [text |-> "09 May 2025", layouts |-> {"2 January 2006", "02 Jan 2006"},
               day |-> 9],
      s10 |-> [text |-> " 2025-11-02 ", layouts |-> {}, day |-> 0],
      s11 |-> [text |-> "i dag", layouts |-> {}, day |-> 0] ]

StringOf(text) == CHOOSE id \in DOMAIN DateStrings : DateStrings[id].text = text

\* time.Parse(layout, value): the time, or an error (Nil)
Parse(layout, value) ==
    LET str == DateStrings[StringOf(value)]
    IN IF layout \in str.layouts THEN Ref(str.day) ELSE Nil

\* strings.TrimSpace and strings.Replace(text, ",", "", -1) on these strings
TrimSpace(text) == IF text = " 2025-11-02 " THEN "2025-11-02" ELSE text
RemoveCommas(text) ==
    CASE text = "5 November, 2025" -> "5 November 2025"
      [] text = "November 7, 2025" -> "November 7 2025"
      [] OTHER -> text

\* the first layout of the list, from position k on, that parses the value
RECURSIVE FirstParse(_, _, _)
FirstParse(formats, k, value) ==
    IF k > Len(formats) THEN Nil
    ELSE IF Parse(formats[k], value) # Nil THEN Parse(formats[k], value)
    ELSE FirstParse(formats, k + 1, value)

\* The body of the loop for one element: the datetime attribute, then
\* the content attribute, then the text.  An element is
\* [datetime, content, text]: the attributes are Nil when absent and text
\* is Nil when el.Text() fails.
FromDatetime(el) ==
    IF el.datetime # Nil THEN FirstParse(DatetimeFormats, 1, el.datetime[1]) ELSE Nil
FromContent(el) ==
    IF el.content # Nil THEN Parse(RFC3339, el.content[1]) ELSE Nil
FromText(el) ==
    IF el.text # Nil
    THEN FirstParse(TextFormats, 1, RemoveCommas(TrimSpace(el.text[1])))
    ELSE Nil

FromElement(el) ==
    IF FromDatetime(el) # Nil THEN FromDatetime(el)
    ELSE IF FromContent(el) # Nil THEN FromContent(el)
    ELSE FromText(el)

\* the loop over the selectors from position k on; page[k] is the element
\* page.Element finds for selector k, Nil when it finds none
RECURSIVE ExtractDateFrom(_, _)
ExtractDateFrom(page, k) ==
    IF k > Len(Selectors) THEN Nil
    ELSE IF page[k] # Nil /\ FromElement(page[k][1]) # Nil
    THEN FromElement(page[k][1])
    ELSE ExtractDateFrom(page, k + 1)

extractDate(page) == ExtractDateFrom(page, 1)

\* the call on its own
ApplyExtractDate ==
    /\ input.fn = "extractDate"
    /\ output = NoOutput
    /\ output' = [fn |-> "extractDate", date |-> extractDate(input.page)]
    /\ UNCHANGED <<trackerVars, dbVars, runVars, cancelled, response, env, spc,
                   caller, resets, input, browser, launched, call, gh, sh>>

\* The elements of the pages.
DateElements ==
    [datetime : {Nil, Ref("2025-11-01T10:00:00Z"), Ref("2025-11-02"),
                 Ref("2025-11-03T10:00:00"), Ref("i dag")},
     content : {Nil, Ref("2025-11-04T10:00:00Z"), Ref("2025-11-02")},
     text : {Nil, Ref("5 November, 2025"), Ref("November 7, 2025"),
             Ref("09 May 2025"), Ref(" 2025-11-02 "), Ref("i dag")}]

\* A page is made of the elements its selectors find; Found(n) is the
\* choices of at most n selectors that find one.
\* the first three selectors only find an element that has the attribute
Matches(k, el) == k <= 3 => el.datetime # Nil
DatePage(els) == [k \in DOMAIN Selectors |-> IF k \in DOMAIN els THEN Ref(els[k]) ELSE Nil]
Found(n) == {f \in SUBSET DOMAIN Selectors : Cardinality(f) <= n}

\* =================================================================
\* scrapeArticle (scraper.go)
\* =================================================================

\* The zero time.Time is day 0; the days the pages denote are positive.
IsZero(t) == t = 0

\* the step of scrapeArticle that fails, in the order of the calls, and
\* the error returned for it
ArticleFaults == <<"Page", "WaitLoad", "HTML", "url.Parse", "readability.FromReader">>
ArticleError(fault) ==
    CASE fault = "Page" -> "failed to create page: %w"
      [] fault = "WaitLoad" -> "timeout waiting for article page to load: %w"
      [] fault = "HTML" -> "failed to get page HTML: %w"
      [] fault = "url.Parse" -> "failed to parse URL: %w"
      [] fault = "readability.FromReader" -> "failed to parse article with readability: %w"

\* The published time: that of readability, or that of the scan of the
\* page, with the number of scans made.
PublishedAtNotZeroChecked(readabilityArticle, page) ==
    IF readabilityArticle.PublishedTime # Nil
    THEN [at |-> readabilityArticle.PublishedTime, scans |-> 0]
    ELSE [at |-> extractDate(page), scans |-> 1]

PublishedAt(readabilityArticle, page) ==
    IF readabilityArticle.PublishedTime # Nil /\ ~IsZero(readabilityArticle.PublishedTime[1])
    THEN [at |-> readabilityArticle.PublishedTime, scans |-> 0]
    ELSE [at |-> extractDate(page), scans |-> 1]

\* database.Article as scrapeArticle fills it
Article(articleURL, readabilityArticle, page) ==
    [Source |-> "gasetten",
     URL |-> articleURL,
     ContentHTML |-> Ref(readabilityArticle.Content),
     ContentText |-> Ref(readabilityArticle.TextContent),
     Title |-> IF readabilityArticle.Title # "" THEN Ref(readabilityArticle.Title) ELSE Nil,
     Author |-> IF readabilityArticle.Byline # "" THEN Ref(readabilityArticle.Byline)
                ELSE Nil,
     PublishedAt |-> PublishedAt(readabilityArticle, page).at]

\* in: the URL, the step that fails ("none" when none does), what
\* readability makes of the page, and the date elements of the page
scrapeArticle(in) ==
    IF in.fault # "none"
    THEN [article |-> Nil, err |-> ArticleError(in.fault), scans |-> 0]
    ELSE [article |-> Ref(Article(in.url, in.readability, in.page)),
          err |-> "nil",
          scans |-> PublishedAt(in.readability, in.page).scans]

ApplyScrapeArticle ==
    /\ input.fn = "scrapeArticle"
    /\ output = NoOutput
    /\ output' = [fn |-> "scrapeArticle"] @@ scrapeArticle(input)
    /\ UNCHANGED <<trackerVars, dbVars, runVars, cancelled, response, env, spc,
                   caller, resets, input, browser, launched, call, gh, sh>>

\* What readability makes of a page.
ReadabilityArticles ==
    [Title : {"", "Rubrik"},
     Byline : {"", "Redaktionen"},
     Content : {"", "<p>Text</p>"},
     TextContent : {"", "Text"},
     PublishedTime : {Nil, Ref(0), Ref(20)}]

ArticleURL == <<Origin, "/", "blogg", "/", "slug">>

\* =================================================================
\* initBrowser, isBrowserAlive, Close (scraper.go)
\* =================================================================
\* Login and ScrapeArticles reach the browser of the Scraper through
\* initBrowser only; the Scraper has no lock, so the statements of two
\* calls interleave.

\* A call: its position, the function, the error returned, the outcome of
\* the probe, the handle found in s.browser, the browser this call
\* launched, and the calls this goroutine has begun.
NoCall ==
    [pc |-> "idle", fn |-> "none", err |-> "nil", probe |-> "none", held |-> Nil,
     made |-> Nil, calls |-> 0]

Begin(g, fn) == [NoCall EXCEPT !.fn = fn, !.calls = call[g].calls + 1]

Live == {b \in DOMAIN launched : launched[b].live}

\* (*rod.Browser).Close on the browser a handle points to
CloseBrowser(handle) == [launched EXCEPT ![handle[1]].live = FALSE]

\* if s.browser != nil
initBrowser(g) ==
    /\ g <= env.users
    /\ call[g].pc = "idle"
    /\ call[g].calls < MaxBrowserCalls
    /\ call' = [call EXCEPT ![g] =
                   [Begin(g, "initBrowser") EXCEPT
                       !.held = browser,
                       !.pc = IF browser # Nil THEN "probe" ELSE "launch"]]
    /\ UNCHANGED <<trackerVars, dbVars, runVars, cancelled, response, env, spc,
                   caller, resets, input, browser, launched, output, gh, sh>>

\* the probe lets the panic of GetContext out
isBrowserAlivePanics(g) ==
    /\ call[g].pc = "probe"
    /\ \/ call' = [call EXCEPT ![g].probe = "passed", ![g].pc = "idle"]
       \/ /\ env.faults
          /\ call' = [call EXCEPT ![g].probe = "panicked", ![g].pc = "panicked"]
    /\ UNCHANGED <<trackerVars, dbVars, runVars, cancelled, response, env, spc,
                   caller, resets, input, browser, launched, output, gh, sh>>

\* isBrowserAlive: false when s.browser is nil or GetContext panics (the
\* deferred recover lets the function return its zero result), true when
\* GetContext returns.  On true initBrowser returns nil.
isBrowserAlive(g) ==
    /\ call[g].pc = "probe"
    /\ \/ /\ browser # Nil
          /\ call' = [call EXCEPT ![g].probe = "passed", ![g].pc = "idle"]
       \/ /\ browser = Nil \/ env.faults
          /\ call' = [call EXCEPT ![g].probe = "failed", ![g].pc = "close"]
    /\ UNCHANGED <<trackerVars, dbVars, runVars, cancelled, response, env, spc,
                   caller, resets, input, browser, launched, output, gh, sh>>

\* the stale browser is discarded without being closed
CloseStaleSkipped(g) ==
    /\ call[g].pc = "close"
    /\ call' = [call EXCEPT ![g].pc = "discard"]
    /\ UNCHANGED <<trackerVars, dbVars, runVars, cancelled, response, env, spc,
                   caller, resets, input, browser, launched, output, gh, sh>>

\* s.browser.Close() of the stale branch, its error ignored; a nil
\* s.browser (set by an overlapping call) is dereferenced
CloseStale(g) ==
    /\ call[g].pc = "close"
    /\ IF browser = Nil
       THEN /\ call' = [call EXCEPT ![g].pc = "panicked"]
            /\ UNCHANGED launched
       ELSE /\ launched' = CloseBrowser(browser)
            /\ call' = [call EXCEPT ![g].pc = "discard"]
    /\ UNCHANGED <<trackerVars, dbVars, runVars, cancelled, response, env, spc,
                   caller, resets, input, browser, output, gh, sh>>

\* s.browser = nil
Discard(g) ==
    /\ call[g].pc = "discard"
    /\ browser' = Nil
    /\ call' = [call EXCEPT ![g].pc = "launch"]
    /\ UNCHANGED <<trackerVars, dbVars, runVars, cancelled, response, env, spc,
                   caller, resets, input, launched, output, gh, sh>>

\* l.Launch(): a new browser process, or an error
Launch(g) ==
    /\ call[g].pc = "launch"
    /\ \/ /\ launched' = Append(launched, [live |-> TRUE])
          /\ call' = [call EXCEPT ![g].made = Ref(Len(launched) + 1),
                                  ![g].pc = "connect"]
       \/ /\ env.faults
          /\ call' = [call EXCEPT ![g].err = "failed to launch browser: %w",
                                  ![g].pc = "idle"]
          /\ UNCHANGED launched
    /\ UNCHANGED <<trackerVars, dbVars, runVars, cancelled, response, env, spc,
                   caller, resets, input, browser, output, gh, sh>>

\* browser.Connect() and s.browser = browser, or an error
Connect(g) ==
    /\ call[g].pc = "connect"
    /\ \/ /\ browser' = call[g].made
          /\ call' = [call EXCEPT ![g].pc = "idle"]
       \/ /\ env.faults
          /\ call' = [call EXCEPT ![g].err = "failed to connect to browser: %w",
                                  ![g].pc = "idle"]
          /\ UNCHANGED browser
    /\ UNCHANGED <<trackerVars, dbVars, runVars, cancelled, response, env, spc,
                   caller, resets, input, launched, output, gh, sh>>

\* Close: the browser is closed, s.browser keeps the handle
Close(g) ==
    /\ g <= env.users
    /\ call[g].pc = "idle"
    /\ call[g].calls < MaxBrowserCalls
    /\ call' = [call EXCEPT ![g] = [Begin(g, "Close") EXCEPT !.held = browser]]
    /\ launched' = IF browser # Nil THEN CloseBrowser(browser) ELSE launched
    /\ UNCHANGED <<trackerVars, dbVars, runVars, cancelled, response, env, spc,
                   caller, resets, input, browser, output, gh, sh>>

\* =================================================================
\* Login, isLoggedIn (scraper.go)
\* =================================================================

\* The calls of Login that can fail, in their order, each with the error
\* Login returns for it; the first three come before the first check.
LoginCalls ==
    << [call |-> "initBrowser", err |-> "err"],
       [call |-> "Page", err |-> "failed to create page: %w"],
       [call |-> "WaitLoad", err |-> "timeout waiting for login page to load: %w"],
       [call |-> "Element log", err |-> "could not find username field (input[name='log']): %w"],
       [call |-> "Input username", err |-> "could not input username: %w"],
       [call |-> "Element pwd", err |-> "could not find password field (input[name='pwd']): %w"],
       [call |-> "Input password", err |-> "could not input password: %w"],
       [call |-> "Element wp-submit",
        err |-> "could not find login button (input[id='wp-submit']): %w"],
       [call |-> "Click", err |-> "could not click login button: %w"],
       [call |-> "WaitLoad after", err |-> "timeout waiting for page after login: %w"] >>
BeforeCheck == 3

\* the calls that type or submit
Acts == {"Input username", "Input password", "Click"}

\* every login form counts as none
isLoggedInFormIgnored(has) == TRUE

\* isLoggedIn: page.Has(form#loginform) says "present" or "absent" or
\* fails ("error"); its error is dropped and the form then counts as
\* absent
isLoggedIn(has) ==
    LET hasLoginForm == has = "present"
    IN IF hasLoginForm THEN FALSE ELSE TRUE

\* the calls made up to the one that fails (0: none fails), from call k on
RECURSIVE ActsDone(_, _)
ActsDone(k, fail) ==
    IF k > Len(LoginCalls) \/ k = fail THEN <<>>
    ELSE (IF LoginCalls[k].call \in Acts THEN <<LoginCalls[k].call>> ELSE <<>>)
         \o ActsDone(k + 1, fail)

\* in: the call that fails (0 when none does), what page.Has finds on the
\* page before (form0) and after the submission (form1), and the text of
\* the error element of the page
LoginResult(in) ==
    IF in.fail \in 1..BeforeCheck
    THEN [err |-> LoginCalls[in.fail].err, acts |-> <<>>]
    ELSE IF isLoggedIn(in.form0)
    THEN [err |-> "nil", acts |-> <<>>]
    ELSE IF in.fail # 0
    THEN [err |-> LoginCalls[in.fail].err, acts |-> ActsDone(BeforeCheck + 1, in.fail)]
    ELSE [err |-> IF isLoggedIn(in.form1) THEN "nil"
                  ELSE IF in.errorMsg # ""
                  THEN "login failed - error message: %s"
                  ELSE "login failed - could not verify successful authentication at %s",
          acts |-> ActsDone(BeforeCheck + 1, 0)]

ApplyLogin ==
    /\ input.fn = "Login"
    /\ output = NoOutput
    /\ output' = [fn |-> "Login"] @@ LoginResult(input)
    /\ UNCHANGED <<trackerVars, dbVars, runVars, cancelled, response, env, spc,
                   caller, resets, input, browser, launched, call, gh, sh>>

\* what page.Has(form#loginform) may answer
HasLoginForm == {"present", "absent", "error"}

\* =================================================================
\* The system
\* =================================================================

\* The surroundings of the core.
\*   runs     POST /scrape requests that may start a run
\*   overlap  a POST /scrape may arrive while a run is in progress
\*   subs     GET /scrape/progress requests served
\*   pages    the link lists the listing page may yield
\*   faults   browser, site and database operations may fail, and the
\*            caller may cancel ctx
\*   callers  goroutines that call IncrementArticlesAdded
\*   calls    calls of IncrementArticlesAdded each of them makes
\*   resets   calls of Reset made
\*   inputs   the arguments a function of the scraper is applied to on its
\*            own
\*   users    goroutines that call initBrowser and Close
\* Overlapping runs on short listings.
Overlapping ==
    [runs |-> MaxRuns, overlap |-> TRUE, subs |-> 0,
     pages |-> LinkLists(OverlapLinks), faults |-> TRUE, callers |-> 0,
     calls |-> 0, resets |-> 0,
     inputs |-> "none", users |-> 0]

\* Runs one after the other on the same tracker and store.
Successive ==
    [runs |-> MaxRuns, overlap |-> FALSE, subs |-> 0,
     pages |-> LinkLists(MaxLinks), faults |-> TRUE, callers |-> 0,
     calls |-> 0, resets |-> 0,
     inputs |-> "none", users |-> 0]

\* One run watched by one progress stream.
Watched ==
    [runs |-> 1, overlap |-> FALSE, subs |-> 1,
     pages |-> LinkLists(MaxLinks), faults |-> TRUE, callers |-> 0,
     calls |-> 0, resets |-> 0,
     inputs |-> "none", users |-> 0]

\* One run in which nothing fails, watched by every progress stream.
Crowded ==
    [runs |-> 1, overlap |-> FALSE, subs |-> MaxSubs,
     pages |-> {[k \in 1..MaxLinks |-> k]}, faults |-> FALSE, callers |-> 0,
     calls |-> 0, resets |-> 0,
     inputs |-> "none", users |-> 0]

\* One run, watched by progress streams that never read their mailboxes.
Stalled ==
    [runs |-> 1, overlap |-> FALSE, subs |-> MaxSubs,
     pages |-> {[k \in 1..MaxLinks |-> k]}, faults |-> TRUE, callers |-> 0,
     calls |-> 0, resets |-> 0,
     inputs |-> "none", users |-> 0]

\* Overlapping runs on one listing long enough to be cancelled in the loop.
Interleaved ==
    [runs |-> MaxRuns, overlap |-> TRUE, subs |-> 0,
     pages |-> {[k \in 1..InterleavedLinks |-> k]}, faults |-> TRUE, callers |-> 0,
     calls |-> 0, resets |-> 0,
     inputs |-> "none", users |-> 0]

\* No run: one goroutine calls IncrementArticlesAdded, watched by one
\* progress stream.
Counting ==
    [runs |-> 0, overlap |-> FALSE, subs |-> 1, pages |-> {}, faults |-> TRUE,
     callers |-> 1, calls |-> MaxCalls, resets |-> 0,
     inputs |-> "none", users |-> 0]

\* One run in which nothing fails, watched by every progress stream, and
\* a caller of Reset.
Resetting ==
    [runs |-> 1, overlap |-> FALSE, subs |-> MaxSubs,
     pages |-> {[k \in 1..ResetLinks |-> k]}, faults |-> FALSE, callers |-> 0,
     calls |-> 0, resets |-> MaxResets,
     inputs |-> "none", users |-> 0]

\* No run: extractArticleLinks applied to a listing.
Discovering ==
    [runs |-> 0, overlap |-> FALSE, subs |-> 0, pages |-> {}, faults |-> FALSE,
     callers |-> 0, calls |-> 0, resets |-> 0,
     inputs |-> "extractArticleLinks", users |-> 0]

\* No run: extractDate applied to an article page.
Dating ==
    [runs |-> 0, overlap |-> FALSE, subs |-> 0, pages |-> {}, faults |-> FALSE,
     callers |-> 0, calls |-> 0, resets |-> 0,
     inputs |-> "extractDate", users |-> 0]

\* One run in which nothing fails, watched by one progress stream that
\* reads when it is scheduled.
Slow ==
    [runs |-> 1, overlap |-> FALSE, subs |-> 1,
     pages |-> {[k \in 1..MaxLinks |-> k]}, faults |-> FALSE, callers |-> 0,
     calls |-> 0, resets |-> 0, inputs |-> "none", users |-> 0]

\* Runs one after the other in which nothing fails, watched by one progress
\* stream.
Rewatched ==
    [runs |-> MaxRuns, overlap |-> FALSE, subs |-> 1,
     pages |-> {[k \in 1..RewatchedLinks |-> k]}, faults |-> FALSE, callers |-> 0,
     calls |-> 0, resets |-> 0, inputs |-> "none", users |-> 0]

\* One run in which nothing fails, and a goroutine that calls
\* IncrementArticlesAdded on the run's tracker.
Racing ==
    [runs |-> 1, overlap |-> FALSE, subs |-> 0,
     pages |-> {[k \in 1..RacingLinks |-> k]}, faults |-> FALSE, callers |-> 1,
     calls |-> RacingCalls, resets |-> 0, inputs |-> "none", users |-> 0]

\* the arguments of the function an environment applies
Inputs(fn) ==
    CASE fn = "extractArticleLinks" ->
            \E e \in Anchors(MaxAnchors) : input = [fn |-> fn, elements |-> e]
      [] fn = "extractDate" ->
            \E found \in Found(MaxDateElements) : \E els \in [found -> DateElements] :
                /\ \A k \in found : Matches(k, els[k])
                /\ input = [fn |-> fn, page |-> DatePage(els)]
      [] fn = "scrapeArticle" ->
            \/ \E k \in DOMAIN ArticleFaults :
                  input = [fn |-> fn, url |-> ArticleURL, fault |-> ArticleFaults[k]]
            \/ \E found \in Found(MaxArticleDateElements) :
                  \E els \in [found -> DateElements] :
                     \E readabilityArticle \in ReadabilityArticles :
                        /\ \A k \in found : Matches(k, els[k])
                        /\ input = [fn |-> fn, url |-> ArticleURL, fault |-> "none",
                                    readability |-> readabilityArticle,
                                    page |-> DatePage(els)]
      [] fn = "Login" ->
            \E fail \in 0..Len(LoginCalls), form0 \in HasLoginForm,
               form1 \in HasLoginForm, errorMsg \in {"", "Fel"} :
                input = [fn |-> fn, fail |-> fail, form0 |-> form0, form1 |-> form1,
                         errorMsg |-> errorMsg]
      [] OTHER -> input = NoInput

\* No run: scrapeArticle applied to an article page.
Extracting ==
    [runs |-> 0, overlap |-> FALSE, subs |-> 0, pages |-> {}, faults |-> FALSE,
     callers |-> 0, calls |-> 0, resets |-> 0,
     inputs |-> "scrapeArticle", users |-> 0]

\* No run: one goroutine calls initBrowser and Close.
Browsing ==
    [runs |-> 0, overlap |-> FALSE, subs |-> 0, pages |-> {}, faults |-> TRUE,
     callers |-> 0, calls |-> 0, resets |-> 0, inputs |-> "none", users |-> 1]

\* The same, as the overlapping runs of two goroutines.
BrowsingOverlapped ==
    [runs |-> 0, overlap |-> TRUE, subs |-> 0, pages |-> {}, faults |-> TRUE,
     callers |-> 0, calls |-> 0, resets |-> 0, inputs |-> "none", users |-> MaxUsers]

\* No run: Login applied to a session.
LoggingIn ==
    [runs |-> 0, overlap |-> FALSE, subs |-> 0, pages |-> {}, faults |-> FALSE,
     callers |-> 0, calls |-> 0, resets |-> 0, inputs |-> "Login", users |-> 0]

InitIn(environments) ==
    /\ env \in environments
    /\ current = NewProgressTracker
    /\ listeners = <<>>
    /\ active = FALSE
    /\ chans = [c \in Subs |-> [buf |-> <<>>, closed |-> FALSE]]
    /\ store = [u \in URLs |-> 0]
    /\ nextID = 1
    /\ rows = [u \in URLs |-> 0]
    /\ pc = [r \in Runs |-> "idle"]
    /\ update = [r \in Runs |-> NoUpdate]
    /\ links = [r \in Runs |-> <<>>]
    /\ idx = [r \in Runs |-> 0]
    /\ scrapedCount = [r \in Runs |-> 0]
    /\ articleID = [r \in Runs |-> 0]
    /\ cancelled = [r \in Runs |-> FALSE]
    /\ ret = [r \in Runs |-> 0]
    /\ err = [r \in Runs |-> "nil"]
    /\ response = "none"
    /\ spc = [h \in Subs |-> "idle"]
    /\ caller = [c \in Callers |-> [pc |-> "idle", update |-> NoUpdate, calls |-> 0]]
    /\ resets = 0
    /\ Inputs(env.inputs)
    /\ output = NoOutput
    /\ browser = Nil
    /\ launched = <<>>
    /\ call = [g \in Goroutines |-> NoCall]
    /\ gh = [r \in Runs |-> NewHistory]
    /\ sh = [h \in Subs |-> [snap |-> NoUpdate, first |-> NoUpdate]]

RunStep(r) ==
    \/ SetActiveTrue(r)
    \/ ReadCurrent(r)
    \/ UpdateStatus(r)
    \/ UpdateProgress(r)
    \/ UpdateLiteral(r)
    \/ InitBrowser(r)
    \/ Login(r)
    \/ CancelCheck(r)
    \/ Page(r)
    \/ WaitLoad(r)
    \/ ExtractLinks(r)
    \/ Loop(r)
    \/ Exists(r)
    \/ ScrapeArticle(r)
    \/ CreateArticle(r)
    \/ Return(r)

\* handleScrape and the runs it starts
Next ==
    \/ HandleScrape
    \/ \E r \in Runs : RunStep(r)
    \/ \E r \in Runs : Cancel(r)

\* the same with the progress streams
NextStream ==
    \/ HandleScrape
    \/ \E r \in Runs : RunStep(r)
    \/ \E r \in Runs : Cancel(r)
    \/ \E h \in Subs : Subscribe(h)
    \/ \E h \in Subs : Receive(h)
    \/ \E h \in Subs : Disconnect(h)
    \/ \E h \in Subs : Unsubscribe(h)

\* the streams of a run in which nothing fails
NextCrowd ==
    \/ HandleScrape
    \/ \E r \in Runs : RunStep(r)
    \/ \E h \in Subs : Subscribe(h)
    \/ \E h \in Subs : Receive(h)
    \/ \E h \in Subs : Disconnect(h)
    \/ \E h \in Subs : Unsubscribe(h)

\* the run and streams whose clients never read
NextStalled ==
    \/ HandleScrape
    \/ \E r \in Runs : RunStep(r)
    \/ \E r \in Runs : Cancel(r)
    \/ \E h \in Subs : Subscribe(h)

\* the callers of IncrementArticlesAdded and the progress streams
NextCounting ==
    \/ \E c \in Callers : IncrementLocked(c)
    \/ \E c \in Callers : IncrementUpdate(c)
    \/ \E h \in Subs : Subscribe(h)
    \/ \E h \in Subs : Receive(h)
    \/ \E h \in Subs : Disconnect(h)

\* a run and a caller of IncrementArticlesAdded
NextRacing ==
    \/ HandleScrape
    \/ \E r \in Runs : RunStep(r)
    \/ \E c \in Callers : IncrementLocked(c)
    \/ \E c \in Callers : IncrementUpdate(c)

\* a run, its streams and a caller of Reset
NextReset ==
    \/ HandleScrape
    \/ \E r \in Runs : RunStep(r)
    \/ \E h \in Subs : Subscribe(h)
    \/ \E h \in Subs : Receive(h)
    \/ \E h \in Subs : ReceiveClosed(h)
    \/ \E h \in Subs : Disconnect(h)
    \/ \E h \in Subs : Unsubscribe(h)
    \/ Reset

\* extractArticleLinks on its own
\* a run and a stream that stays connected
NextSlow ==
    \/ HandleScrape
    \/ \E r \in Runs : RunStep(r)
    \/ \E h \in Subs : Subscribe(h)
    \/ \E h \in Subs : Receive(h)
    \/ \E h \in Subs : Unsubscribe(h)

NextDiscover == ApplyExtractArticleLinks
NextDate == ApplyExtractDate
NextArticle == ApplyScrapeArticle
NextLogin == ApplyLogin
NextBrowser ==
    \E g \in Goroutines :
        \/ initBrowser(g)
        \/ isBrowserAlive(g)
        \/ CloseStale(g)
        \/ Discard(g)
        \/ Launch(g)
        \/ Connect(g)
        \/ Close(g)

Init == InitIn({Overlapping, Successive})
InitSuccessive == InitIn({Successive})
InitStream == InitIn({Watched})
InitCrowd == InitIn({Crowded})

Spec == Init /\ [][Next]_vars
SpecSuccessive == InitSuccessive /\ [][Next]_vars
SpecStream == InitStream /\ [][NextStream]_vars
SpecCrowd == InitCrowd /\ [][NextCrowd]_vars
SpecInterleaved == InitIn({Interleaved}) /\ [][Next]_vars
SpecCounting == InitIn({Counting}) /\ [][NextCounting]_vars
SpecReset == InitIn({Resetting}) /\ [][NextReset]_vars
SpecRewatched == InitIn({Rewatched}) /\ [][NextCrowd]_vars
SpecRacing == InitIn({Racing}) /\ [][NextRacing]_vars
SpecDiscover == InitIn({Discovering}) /\ [][NextDiscover]_vars
SpecDate == InitIn({Dating}) /\ [][NextDate]_vars
SpecArticle == InitIn({Extracting}) /\ [][NextArticle]_vars
SpecLogin == InitIn({LoggingIn}) /\ [][NextLogin]_vars
SpecBrowser == InitIn({Browsing}) /\ [][NextBrowser]_vars
SpecBrowsers == InitIn({Browsing, BrowsingOverlapped}) /\ [][NextBrowser]_vars

\* A handler that has left its loop returns: its deferred Unsubscribe waits
\* only for pt.mu, which every holder releases.
SpecResetFair == SpecReset /\ \A h \in Subs : WF_vars(Unsubscribe(h))

\* The run and the handler of the stream are scheduled whenever they can
\* take a step.
SpecSlow ==
    /\ InitIn({Slow}) /\ [][NextSlow]_vars
    /\ \A r \in Runs : WF_vars(RunStep(r))
    /\ \A h \in Subs : WF_vars(Receive(h)) /\ WF_vars(Unsubscribe(h))

\* A goroutine that can take a step is scheduled, and every browser, site
\* and database call of a run returns (each carries a timeout).
SpecStalled ==
    InitIn({Stalled}) /\ [][NextStalled]_vars /\ \A r \in Runs : WF_vars(RunStep(r))

\* =================================================================
\* Properties
\* =================================================================

\* the run is inside ScrapeArticles, past SetActive(true)
Executing(r) == pc[r] \notin {"idle", "setActive", "done"}

\* the run publishes an update in this step
Publishes(r) == gh'[r].last # gh[r].last

\* the run's last update is the completed event of line 356
Completed(r) ==
    /\ gh[r].last # NoUpdate
    /\ gh[r].last.Message[1] = CompletedFormat

Rank(status) ==
    CASE status = "none" -> 0
      [] status = StatusStarting -> 1
      [] status = StatusLoggingIn -> 2
      [] status = StatusScraping -> 3
      [] status \in Terminal -> 4

\* C1: at most one ScrapeArticles task is executing at any time.
C1_AtMostOneBatch == Cardinality({r \in Runs : Executing(r)}) <= 1

\* C2: a POST /scrape that finds the tracker active starts no run and leaves
\* the progress state, the active flag and the subscribers as they were; it
\* only answers that a scrape is in progress.
C2_RejectedWhileActive ==
    [][active =>
         /\ \A r \in Runs : pc[r] = "idle" => pc'[r] = "idle"
         /\ response' # response =>
              /\ response' = "busy"
              /\ UNCHANGED <<current, active, listeners, chans, pc>>]_vars

C2_Witness == response = "busy" /\ active /\ \E r \in Runs : pc[r] = "idle"

\* C3: the first message a subscriber reads is the state the tracker held
\* when it subscribed: until it is read it is at the head of the mailbox.
C3_SnapshotFirst ==
    \A h \in Subs :
       /\ (spc[h] = "streaming" /\ sh[h].first = NoUpdate) =>
             /\ chans[h].buf # <<>>
             /\ Head(chans[h].buf) = sh[h].snap
       /\ sh[h].first # NoUpdate => sh[h].first = sh[h].snap

C3_Witness ==
    \E h \in Subs :
       /\ sh[h].first # NoUpdate
       /\ sh[h].snap.Status = StatusScraping
       /\ sh[h].snap.CurrentItem > 0
       /\ current # sh[h].snap

\* C4: every update becomes the current state and is appended to the mailbox
\* of each registered subscriber that has room; a mailbox that is full, or
\* not registered, is left as it is, whatever the other mailboxes hold.
C4_FanOut ==
    [][\A r \in Runs : Publishes(r) =>
         LET u == gh'[r].last IN
         /\ current' = u
         /\ \A c \in Subs :
              IF Registered(c) /\ Len(chans[c].buf) < ChanCap
              THEN chans'[c].buf = Append(chans[c].buf, u)
              ELSE chans'[c] = chans[c]]_vars

\* one mailbox is full and missed the current state, which another received
C4_Witness ==
    \E a, b \in Subs :
       /\ Registered(a) /\ Registered(b)
       /\ Len(chans[a].buf) = ChanCap
       /\ chans[a].buf[ChanCap] # current
       /\ chans[b].buf # <<>>
       /\ chans[b].buf[Len(chans[b].buf)] = current
       /\ \E k \in DOMAIN listeners : listeners[k] = a /\ listeners[k + 1] = b

\* C5: a started run ends, having published a terminal status, whether or
\* not its subscribers ever read their mailboxes.
C5_NeverBlocked ==
    \A r \in Runs : (pc[r] = "setActive") ~> (pc[r] = "done" /\ gh[r].term)

C5_Witness ==
    \E r \in Runs, h \in Subs :
       /\ pc[r] = "done" /\ gh[r].term
       /\ Len(chans[h].buf) = ChanCap
       /\ sh[h].first = NoUpdate

\* C6: the statuses a run publishes never move backward, and the run
\* publishes nothing after a terminal status.
C6_ForwardWithinRun ==
    [][\A r \in Runs : Publishes(r) =>
         /\ ~gh[r].term
         /\ Rank(gh'[r].last.Status) >= Rank(gh[r].last.Status)]_vars

\* C7: once the tracker holds a terminal status it holds no earlier status
\* again (no step of the system is a Reset).
C7_TrackerForward ==
    [][current.Status \in Terminal => current'.Status \in Terminal]_vars

\* C8: the current item index of the updates a run publishes never
\* decreases and never exceeds the total.
C8_IndexMonotone ==
    [][\A r \in Runs : Publishes(r) =>
         /\ gh'[r].last.CurrentItem <= gh'[r].last.TotalItems
         /\ gh[r].last # NoUpdate =>
               gh'[r].last.CurrentItem >= gh[r].last.CurrentItem]_vars

\* C9: a run that completes with no failed item has inserted exactly the
\* links that were not in the store when it looked them up, has published
\* one skip event for each link that was, and reports the number inserted
\* as articles_added.
C9_SkipsStored ==
    \A r \in Runs : (Completed(r) /\ gh[r].failed = {}) =>
       /\ gh[r].created = {links[r][k] : k \in DOMAIN links[r] \ gh[r].present}
       /\ \A u \in gh[r].created : store[u] # 0
       /\ gh[r].skipped = Cardinality(gh[r].present)
       /\ gh[r].last.Status = StatusCompleted
       /\ gh[r].last.ArticlesAdded = Cardinality(gh[r].created)

C9_Witness ==
    \E r \in Runs :
       /\ Completed(r) /\ gh[r].failed = {}
       /\ Len(links[r]) = 3
       /\ gh[r].present = {2}
       /\ Cardinality(gh[r].created) = 2
       /\ gh[r].skipped = 1
       /\ gh[r].last.ArticlesAdded = 2

\* C10: the loop visits the links in order, one after the other, and an
\* item that fails does not end the run: unless it is cancelled the run
\* visits every link and completes, and the count it returns and reports
\* is the number of articles it inserted, none of them a failed item.
C10_FailureIsolated ==
    \A r \in Runs :
       /\ gh[r].visited = [k \in 1..Len(gh[r].visited) |-> k]
       /\ (pc[r] = "done" /\ gh[r].failed # {} /\ ~cancelled[r]) =>
             /\ Completed(r)
             /\ gh[r].last.Status = StatusCompleted
             /\ Len(gh[r].visited) = Len(links[r])
             /\ ret[r] = Cardinality(gh[r].created)
             /\ gh[r].last.ArticlesAdded = ret[r]
             /\ \A k \in gh[r].failed : links[r][k] \notin gh[r].created

C10_Witness ==
    \E r \in Runs :
       /\ pc[r] = "done" /\ ~cancelled[r]
       /\ Len(links[r]) = 3
       /\ gh[r].failed = {2}
       /\ gh[r].created = {links[r][1], links[r][3]}
       /\ ret[r] = 2

\* the run's last update is the cancelled event of the loop (line 305)
CancelledInLoop(r) ==
    /\ gh[r].last # NoUpdate
    /\ gh[r].last.Message[1] = CancelledFormat

\* C11: a run cancelled at the top of an iteration, the item before it
\* having been inserted, publishes cancelled with articles_added the number
\* of articles it inserted (the number of items passed when none failed or
\* was skipped), returns that number, and has looked up, extracted and
\* inserted none of the remaining items.
C11_CancelledInLoop ==
    \A r \in Runs :
       (/\ CancelledInLoop(r)
        /\ idx[r] >= 1
        /\ links[r][idx[r]] \in gh[r].created) =>
          /\ gh[r].last.Status = StatusCancelled
          /\ gh[r].last.ArticlesAdded = Cardinality(gh[r].created)
          /\ ret[r] = Cardinality(gh[r].created)
          /\ (gh[r].failed = {} /\ gh[r].present = {}) => ret[r] = idx[r]
          /\ idx[r] < Len(links[r])
          /\ gh[r].visited = [k \in 1..idx[r] |-> k]
          /\ gh[r].created \subseteq {links[r][k] : k \in 1..idx[r]}
          /\ pc[r] \in {"return", "done"}

\* the run's last update is the cancelled event that follows the login
\* (line 264)
CancelledAfterLogin(r) ==
    /\ gh[r].last # NoUpdate
    /\ gh[r].last.Message = StatusSite(r).cancelled1.message

\* C12: a run that finds ctx cancelled at the check after a successful login
\* goes on to publish cancelled and nothing else; it returns 0, never
\* reaches the listing page, and has neither read nor written the store.
C12_CancelledAfterLogin ==
    /\ [][\A r \in Runs :
            /\ (pc[r] = "cancelCheck" /\ cancelled[r] /\ pc'[r] # pc[r]) =>
                   pc'[r] = "cancelled1"
            /\ pc[r] = "cancelled1" =>
                   /\ pc'[r] \in {"cancelled1", "return"}
                   /\ Publishes(r) => CancelledAfterLogin(r)']_vars
    /\ [](\A r \in Runs : CancelledAfterLogin(r) =>
            /\ gh[r].last.Status = StatusCancelled
            /\ gh[r].term
            /\ pc[r] \in {"return", "done"}
            /\ ret[r] = 0
            /\ links[r] = <<>>
            /\ gh[r].visited = <<>>
            /\ gh[r].present = {} /\ gh[r].failed = {} /\ gh[r].created = {})

C12_Witness ==
    \E r \in Runs :
       /\ CancelledAfterLogin(r)
       /\ pc[r] = "done"
       /\ cancelled[r]
       /\ \A u \in URLs : store[u] = 0

\* C13: a run in which the browser launch, the login, the creation or the
\* load of the listing page, or the enumeration of its links failed ends
\* with failed as its last status and a detail message, returns an error,
\* and has processed no item.
C13_DiscoveryFatal ==
    \A r \in Runs :
       (pc[r] = "done" /\ gh[r].fault # "none") =>
          /\ gh[r].last.Status = StatusFailed
          /\ gh[r].last.Message # <<>>
          /\ err[r] # "nil"
          /\ gh[r].visited = <<>>
          /\ gh[r].created = {}

\* C14: a run that ended with failed as its last status returns 0 and has
\* looked up and inserted nothing; where no other run is in progress, the
\* store is, as the run returns, what it was when the run began.
C14_FailedLeavesStore ==
    \A r \in Runs :
       (pc[r] \in {"return", "done"} /\ gh[r].last.Status = StatusFailed) =>
          /\ ret[r] = 0
          /\ gh[r].visited = <<>>
          /\ gh[r].present = {} /\ gh[r].created = {}
          /\ (pc[r] = "return" /\ ~env.overlap) => store = gh[r].store0

\* a run fails after an earlier run filled the store
C14_Witness ==
    \E r \in Runs :
       /\ pc[r] = "return" /\ gh[r].last.Status = StatusFailed
       /\ ~env.overlap
       /\ \A u \in URLs : store[u] # 0
       /\ store = gh[r].store0

\* no ScrapeArticles is between its call and its return
Quiet == \A r \in Runs : pc[r] \in {"idle", "done"}

\* C15: ScrapeArticles returns only after a terminal status, and its return
\* leaves the active flag false; while no run is in progress the flag is
\* false, so that a POST /scrape after a finished run is accepted.
C15_InactiveAfterReturn ==
    /\ [][\A r \in Runs : (pc[r] # "done" /\ pc'[r] = "done") =>
            /\ gh[r].term
            /\ ~active']_vars
    /\ [](Quiet => ~IsActive)

\* a second run was accepted after the first, cancelled in the loop, returned
C15_Witness ==
    /\ pc[1] = "done" /\ CancelledInLoop(1)
    /\ pc[2] = "setActive"
    /\ ~active
    /\ response = "started"

\* C16: a run whose loop ran to its end publishes completed with
\* current_item and total_items the number of links found and
\* articles_added the count it returns, with a nil error; that count is the
\* number of articles the run inserted, all of them in the store.
C16_CompletedCounts ==
    \A r \in Runs : Completed(r) =>
       /\ gh[r].last.Status = StatusCompleted
       /\ gh[r].last.CurrentItem = Len(links[r])
       /\ gh[r].last.TotalItems = Len(links[r])
       /\ gh[r].last.ArticlesAdded = ret[r]
       /\ err[r] = "nil"
       /\ ret[r] = Cardinality(gh[r].created)
       /\ \A u \in gh[r].created : store[u] # 0
       /\ pc[r] \in {"return", "done"}

C16_Witness ==
    \E r \in Runs :
       /\ Completed(r) /\ pc[r] = "done"
       /\ Len(links[r]) = 3
       /\ gh[r].last.CurrentItem = 3 /\ gh[r].last.TotalItems = 3
       /\ Cardinality(gh[r].created) = 3
       /\ ret[r] = 3

\* calls of IncrementArticlesAdded begun so far
Calls ==
    LET F[k \in 0..MaxCallers] == IF k = 0 THEN 0 ELSE F[k - 1] + caller[k].calls
    IN F[MaxCallers]

\* no call of IncrementArticlesAdded is between its two halves
NoCallInFlight == \A c \in Callers : caller[c].pc = "idle"

\* the stream reads the last message of its mailbox and stays subscribed
ReadsLast(h) ==
    /\ spc[h] = "streaming" /\ spc'[h] = "streaming"
    /\ Len(chans[h].buf) = 1
    /\ chans'[h].buf = <<>>

\* the tracker's count is the number of calls begun, and each call
\* publishes one update, which carries that count
IncrementsCounted ==
    /\ [](current.ArticlesAdded = Calls)
    /\ [][\A c \in Callers : (caller[c].pc = "update" /\ caller'[c].pc = "idle") =>
            /\ current' = caller[c].update
            /\ current'.ArticlesAdded = Calls
            /\ \A h \in Subs :
                  (Registered(h) /\ Len(chans[h].buf) < ChanCap) =>
                     chans'[h].buf = Append(chans[h].buf, current')]_vars

C18_ResetState ==
    [][resets' # resets =>
         /\ \A c \in Subs : Registered(c) => chans'[c].closed
         /\ listeners' = <<>>
         /\ current' = [Status |-> StatusStarting, Message |-> <<>>,
                         CurrentItem |-> 0, TotalItems |-> 0,
                         ArticlesAdded |-> 0, NewArticleID |-> 0]
         /\ ~active']_vars

\* the Reset came while a run was in its loop and two streams were reading
C18_Witness ==
    /\ resets = 1
    /\ listeners = <<>>
    /\ ~active
    /\ current.Status = StatusStarting /\ current.TotalItems = 0
    /\ \E r \in Runs : pc[r] = "exists"
    /\ \A h \in Subs : spc[h] = "streaming" /\ chans[h].closed

\* the handler of stream h returns in this step, running pt.Unsubscribe
Unsubscribes(h) == spc[h] # "gone" /\ spc'[h] = "gone"

\* C19: Unsubscribe of a channel leaves the listeners without that channel
\* and otherwise as they were, in their order, and the channel closed; the
\* progress state, the active flag and every other channel are unchanged;
\* nothing is delivered to the channel afterwards.
C19_UnsubscribeFrame ==
    [][\A h \in Subs :
         /\ Unsubscribes(h) =>
               /\ listeners' = SelectSeq(listeners, LAMBDA c : c # h)
               /\ chans'[h].closed
               /\ \A c \in Subs \ {h} : chans'[c] = chans[c]
               /\ current' = current
               /\ active' = active
         /\ spc[h] = "gone" =>
               /\ chans'[h] = chans[h]
               /\ \A k \in DOMAIN listeners' : listeners'[k] # h]_vars

\* the first stream has unsubscribed before the run began; the second is
\* registered and holds the updates published since
C19_Witness ==
    /\ spc[1] = "gone"
    /\ sh[1].snap = NewProgressTracker
    /\ chans[1] = [buf |-> <<>>, closed |-> TRUE]
    /\ listeners = <<2>>
    /\ Len(chans[2].buf) >= 2
    /\ chans[2].buf[Len(chans[2].buf)] = current
    /\ current.Status = StatusCompleted
    /\ resets = 0

\* the stream takes the message at the head of its mailbox
Reads(h) ==
    /\ chans[h].buf # <<>>
    /\ chans'[h] = [chans[h] EXCEPT !.buf = Tail(@)]

\* C20: a progress stream that reads an update with status completed,
\* failed or cancelled leaves its loop, reads nothing more and goes on to
\* unsubscribe; once a handler has returned, whether after a terminal
\* status, a client disconnect or a closed channel, its channel is not
\* registered.
C20_StreamEnds ==
    /\ [][\A h \in Subs :
            /\ (spc[h] = "streaming" /\ Reads(h)
                   /\ Head(chans[h].buf).Status \in Terminal) => spc'[h] = "leaving"
            /\ spc[h] = "leaving" => (spc'[h] \in {"leaving", "gone"} /\ ~Reads(h))
            /\ spc[h] = "gone" => spc'[h] = "gone"]_vars
    /\ [](\A h \in Subs : spc[h] = "gone" => ~Registered(h) /\ chans[h].closed)
    /\ \A h \in Subs : (spc[h] = "leaving") ~> (spc[h] = "gone")

\* one handler returned after the completed update, the other after Reset
\* closed its channel
C20_Witness ==
    /\ spc[1] = "gone" /\ sh[1].first.Status = StatusCompleted
    /\ spc[2] = "gone" /\ sh[2].first.Status = StatusStarting
    /\ resets = 1
    /\ listeners = <<>>
    /\ \A h \in Subs : chans[h].closed

\* C21: the store never holds two rows with one url, however the runs
\* interleave, and a run extracts and inserts no link that its own
\* ArticleExists found stored.
C21_OneRowPerURL ==
    /\ \A u \in URLs : rows[u] <= 1 /\ (rows[u] = 1 <=> store[u] # 0)
    /\ \A r \in Runs :
          /\ pc[r] \in {"scrape", "create", "saved"} => idx[r] + 1 \notin gh[r].present
          /\ \A k \in gh[r].present : links[r][k] \notin gh[r].created

\* a run is about to insert a url that an overlapping run stored after the
\* first had looked it up
C21_Witness ==
    \E r \in Runs :
       /\ pc[r] = "create"
       /\ idx[r] + 1 \notin gh[r].present
       /\ store[Link(r)] # 0
       /\ \E q \in Runs \ {r} : Link(r) \in gh[q].created

\* extractArticleLinks has returned
Discovered == output.fn = "extractArticleLinks"

\* the absolute URL of the element at i, and where a URL first occurs
AbsoluteAt(i) == Absolute(input.elements[i])
FirstAt(url) ==
    CHOOSE i \in DOMAIN input.elements :
       /\ input.elements[i] # NoHref /\ AbsoluteAt(i) = url
       /\ \A j \in 1..(i - 1) : input.elements[j] = NoHref \/ AbsoluteAt(j) # url

\* C22: extractArticleLinks returns no URL twice and none that does not
\* begin with https://gasetten.se/; every URL it returns is the absolute
\* form of an href of the page, and the URLs are in the order of their
\* first occurrences on the page.
C22_LinksDistinctInOrder ==
    Discovered =>
       LET out == output.links IN
       /\ \A j, k \in DOMAIN out : j # k => out[j] # out[k]
       /\ \A k \in DOMAIN out :
             /\ out[k][1] = Origin /\ out[k][2] = "/"
             /\ \E i \in DOMAIN input.elements :
                   input.elements[i] # NoHref /\ AbsoluteAt(i) = out[k]
       /\ \A j, k \in DOMAIN out : j < k => FirstAt(out[j]) < FirstAt(out[k])
       /\ \A i \in DOMAIN input.elements :
             (input.elements[i] # NoHref /\ Accepts(AbsoluteAt(i))) =>
                \E k \in DOMAIN out : out[k] = AbsoluteAt(i)

\* a relative link, then another article, then the first one again in its
\* absolute form
C22_Witness ==
    /\ Discovered
    /\ input.elements = << <<"/", "malmo-ff", "/", "slug">>,
                           <<Origin, "/", "blogg", "/", "slug", "/">>,
                           <<Origin, "/", "malmo-ff", "/", "slug">> >>
    /\ output.links = << <<Origin, "/", "malmo-ff", "/", "slug">>,
                         <<Origin, "/", "blogg", "/", "slug", "/">> >>

\* the non-empty path segments of a URL of the site
Segments(url) == SelectSeq(Split(TrimPrefix(url, SiteRoot), "/"), LAMBDA part : part # <<>>)

\* C23: every URL extractArticleLinks returns has at least two non-empty
\* path segments after the origin.
C23_TwoSegments ==
    Discovered => \A k \in DOMAIN output.links : Len(Segments(output.links[k])) >= 2

\* -----------------------------------------------------------------
\* extractDate
\* -----------------------------------------------------------------

Dated == output.fn = "extractDate"

\* the candidates of one element in the order of the scan: the datetime
\* attribute under each of its layouts, the content attribute, the text
\* of the element under each layout of the format list
ElementCandidates(el) ==
    (IF el.datetime # Nil
     THEN [k \in DOMAIN DatetimeFormats |-> <<DatetimeFormats[k], el.datetime[1]>>]
     ELSE <<>>)
    \o (IF el.content # Nil THEN <<(<<RFC3339, el.content[1]>>)>> ELSE <<>>)
    \o (IF el.text # Nil
        THEN [k \in DOMAIN TextFormats |-> <<TextFormats[k], TrimSpace(el.text[1])>>]
        ELSE <<>>)

RECURSIVE PageCandidates(_, _)
PageCandidates(page, k) ==
    IF k > Len(Selectors) THEN <<>>
    ELSE (IF page[k] # Nil THEN ElementCandidates(page[k][1]) ELSE <<>>)
         \o PageCandidates(page, k + 1)

ParsesAt(cands, i) == Parse(cands[i][1], cands[i][2]) # Nil

\* C26: the date returned by the manual scan is the parse of the first
\* candidate that parses, the candidates taken selector by selector in the
\* list order and, within an element, the datetime attribute, the content
\* attribute, then the text under the format list in order; when no
\* candidate parses the result is nil.
C26_FirstParseWins ==
    Dated =>
        LET cands == PageCandidates(input.page, 1)
            hits == {i \in DOMAIN cands : ParsesAt(cands, i)}
        IN IF hits = {} THEN output.date = Nil
           ELSE LET first == CHOOSE i \in hits : \A j \in hits : i <= j
                IN output.date = Parse(cands[first][1], cands[first][2])
\* -----------------------------------------------------------------
\* scrapeArticle
\* -----------------------------------------------------------------

Scraped == output.fn = "scrapeArticle" /\ output.article # Nil

\* C24: a record returned by scrapeArticle has no optional text field
\* set to the empty string: the title, the author, the HTML body and the
\* text body are nil when readability produced nothing for them, and
\* what readability produced otherwise.
C24_NoEmptyOptional ==
    Scraped =>
        LET article == output.article[1]
            Field(got, produced) == got = IF produced = "" THEN Nil ELSE Ref(produced)
        IN /\ Field(article.Title, input.readability.Title)
           /\ Field(article.Author, input.readability.Byline)
           /\ Field(article.ContentHTML, input.readability.Content)
           /\ Field(article.ContentText, input.readability.TextContent)

\* C25: the published time of the record is that of readability when it
\* is present and not the zero time, and then the page is not scanned;
\* otherwise the page is scanned once and the published time is what the
\* scan returns, nil when it returns nothing.
C25_DatePrecedence ==
    Scraped =>
        LET article == output.article[1]
            PublishedTime == input.readability.PublishedTime
        IN IF PublishedTime # Nil /\ PublishedTime # Ref(0)
           THEN article.PublishedAt = PublishedTime /\ output.scans = 0
           ELSE article.PublishedAt = extractDate(input.page) /\ output.scans = 1

\* readability gave the zero time and the scan of the page found a date
C25_Witness ==
    /\ Scraped
    /\ input.readability.PublishedTime = Ref(0)
    /\ output.article[1].PublishedAt \notin {Nil, Ref(0)}
\* -----------------------------------------------------------------
\* initBrowser, Close
\* -----------------------------------------------------------------

\* C27: at most one launched browser is live for the Scraper.
C27_OneLiveBrowser == Cardinality(Live) <= 1
InitBrowserReturned(g) == call[g].fn = "initBrowser" /\ call[g].pc = "idle"

\* C28: a call of initBrowser that found a handle and whose probe passed
\* returns nil, has launched nothing and leaves the handle in place; one
\* whose probe failed has closed the browser of the old handle and
\* discarded the handle, and either returns nil with s.browser a newly
\* launched live browser or returns the error of the launch or of the
\* connection with no handle held; no call ends in a panic.
C28_InitBrowserIdempotent ==
    \A g \in Goroutines :
        /\ call[g].pc # "panicked"
        /\ InitBrowserReturned(g) /\ call[g].probe = "passed" =>
              /\ call[g].err = "nil"
              /\ call[g].made = Nil
              /\ browser = call[g].held
        /\ InitBrowserReturned(g) /\ call[g].probe = "failed" =>
              /\ ~launched[call[g].held[1]].live
              /\ call[g].err \in {"nil", "failed to launch browser: %w",
                                   "failed to connect to browser: %w"}
              /\ IF call[g].err = "nil"
                 THEN /\ browser = call[g].made
                      /\ browser \notin {Nil, call[g].held}
                      /\ launched[browser[1]].live
                 ELSE browser = Nil

\* a second call found the browser of the first stale and launched another
C28_Witness ==
    \E g \in Goroutines :
        /\ InitBrowserReturned(g)
        /\ call[g].probe = "failed"
        /\ call[g].err = "nil"
        /\ call[g].held # Nil

\* a second call found the browser of the first alive
C28_WitnessAlive ==
    \E g \in Goroutines :
        /\ InitBrowserReturned(g)
        /\ call[g].probe = "passed"
        /\ call[g].held # Nil
\* -----------------------------------------------------------------
\* Login
\* -----------------------------------------------------------------

LoggedIn == output.fn = "Login"

\* C29: when the page of the authenticated area loads and shows no login
\* form, Login returns nil and has typed and submitted nothing; and
\* whenever Login returns nil, either the first check found no login
\* form and nothing was typed or submitted, or the credentials were
\* typed and submitted and the check after the submission found no
\* login form.
C29_LoginNoOp ==
    LoggedIn =>
        /\ input.fail \notin 1..BeforeCheck /\ input.form0 = "absent" =>
              output.err = "nil" /\ output.acts = <<>>
        /\ output.err = "nil" =>
              \/ input.form0 # "present" /\ output.acts = <<>>
              \/ /\ input.form1 # "present"
                 /\ output.acts = <<"Input username", "Input password", "Click">>

\* a session that is authenticated, on which a later call would fail
C29_Witness ==
    /\ LoggedIn
    /\ input.form0 = "absent"
    /\ input.fail > BeforeCheck
    /\ output.err = "nil"
\* -----------------------------------------------------------------
\* NewArticleID
\* -----------------------------------------------------------------

SavedFormat == "Saved article %d/%d (%d new)"

\* C30: an update published by a run carries a non-zero NewArticleID only
\* when it is the update of line 343 for the article just stored, and
\* then the id is that of the article; every other update of the run
\* carries 0.
C30_NewArticleIDWhenSaved ==
    \A r \in Runs :
        gh[r].last # NoUpdate /\ gh[r].last.NewArticleID # 0 =>
            /\ gh[r].last.Message[1] = SavedFormat
            /\ gh[r].last.NewArticleID = articleID[r]

\* -----------------------------------------------------------------
\* UpdateStatus, UpdateProgress: what they leave alone
\* -----------------------------------------------------------------

\* the step in which run r's UpdateStatus, or UpdateProgress, writes
WritesStatus(r) == pc[r] \in StatusSites /\ update[r] # NoUpdate /\ update'[r] = NoUpdate
WritesProgress(r) ==
    pc[r] \in ProgressSites /\ update[r] # NoUpdate /\ update'[r] = NoUpdate

\* C31: with one writer, the write of UpdateStatus changes Status and
\* Message only and the write of UpdateProgress CurrentItem, TotalItems
\* and Message only: the other fields of pt.current, pt.active and
\* pt.listeners are what they were before the call.
C31_UpdateFrame ==
    [][\A r \in Runs :
          /\ WritesStatus(r) =>
                /\ current' = [current EXCEPT !.Status = current'.Status,
                                              !.Message = current'.Message]
                /\ active' = active /\ listeners' = listeners
          /\ WritesProgress(r) =>
                /\ current' = [current EXCEPT !.CurrentItem = current'.CurrentItem,
                                              !.TotalItems = current'.TotalItems,
                                              !.Message = current'.Message]
                /\ active' = active /\ listeners' = listeners]_vars

\* a run watched by a stream was cancelled after it had stored an article
C31_Witness ==
    \E r \in Runs :
        /\ gh[r].last # NoUpdate
        /\ gh[r].last.Status = StatusCancelled
        /\ current = gh[r].last
        /\ current.ArticlesAdded > 0
        /\ current.TotalItems > 1
        /\ listeners # <<>>

\* -----------------------------------------------------------------
\* Where cancellation is observed
\* -----------------------------------------------------------------

\* C32: a run turns to its cancelled updates only from the check after
\* the login and from the top of a loop iteration; no item fails because
\* ctx was cancelled while it was in flight; and a run that leaves the
\* loop at its end publishes completed and returns no error, cancelled
\* or not.
C32_CancelOnlyAtChecks ==
    /\ [][\A r \in Runs :
            /\ (pc'[r] = "cancelled1" /\ pc[r] # "cancelled1") => pc[r] = "cancelCheck"
            /\ (pc'[r] = "cancelled2" /\ pc[r] # "cancelled2") => pc[r] = "loop"
            /\ (pc[r] = "completed" /\ Publishes(r)) =>
                  /\ gh'[r].last.Status = StatusCompleted
                  /\ err'[r] = "nil"]_vars
    /\ [](\A r \in Runs : gh[r].interrupted = {})

\* -----------------------------------------------------------------
\* Closed channels
\* -----------------------------------------------------------------

\* a channel is closed in this step: Unsubscribe and Reset close the
\* channels they take out of pt.listeners
Closes(c) == Registered(c) /\ ~Registered(c)'
\* an update is sent on a channel in this step
Sends(c) == Registered(c) /\ Len(chans'[c].buf) > Len(chans[c].buf)

\* C33: every channel in pt.listeners is open, so Update sends on open
\* channels only and Unsubscribe and Reset close open channels only; the
\* Unsubscribe of a handler whose channel is no longer in pt.listeners
\* changes neither the list nor any channel.
C33_NoSendOrCloseOnClosed ==
    /\ [](\A c \in Subs : Registered(c) => ~chans[c].closed)
    /\ [][\A c \in Subs :
            /\ Closes(c) \/ Sends(c) => ~chans[c].closed
            /\ Unsubscribes(c) /\ ~Registered(c) =>
                  UNCHANGED <<listeners, chans>>]_vars

\* a handler whose channel Reset had closed has gone, leaving what the
\* channel still buffered, while another stream subscribed after the Reset
C33_Witness ==
    \E h, k \in Subs :
        /\ spc[h] = "gone" /\ chans[h].closed /\ chans[h].buf # <<>>
        /\ Registered(k) /\ resets > 0

\* -----------------------------------------------------------------
\* Every run ends with one terminal status
\* -----------------------------------------------------------------

C35_TerminalReachesStream ==
    \A h \in Subs :
        (Registered(h) /\ \E r \in Runs : pc[r] = "done")
            ~> (spc[h] \in {"leaving", "gone"})

\* -----------------------------------------------------------------
\* The count of the terminal update
\* -----------------------------------------------------------------

\* C36: the terminal update of a run carries as ArticlesAdded the count
\* the run returns, whatever earlier runs left in the tracker.
C36_TerminalCount ==
    \A r \in Runs :
        gh[r].term /\ pc[r] \in {"return", "done"} =>
            gh[r].last.ArticlesAdded = ret[r]

\* -----------------------------------------------------------------
\* The active flag during a run
\* -----------------------------------------------------------------

\* C37: IsActive() is true at every moment between a run's SetActive(true)
\* and its return.
C37_ActiveWhileRunning ==
    \A r \in Runs : Executing(r) => IsActive

\* -----------------------------------------------------------------
\* The first message of a stream opened after a request
\* -----------------------------------------------------------------

\* the request that started run r was accepted and the run has published
\* no terminal update yet
Accepted(r) == pc[r] \notin {"idle", "done"} /\ ~gh[r].term

\* C38: a stream that subscribes after a request was accepted does not get
\* a terminal status (of an earlier run) as its first message.
C38_FirstMessageOfThisRun ==
    [][\A h \in Subs :
        (spc[h] = "idle" /\ spc'[h] = "streaming" /\ \E r \in Runs : Accepted(r)) =>
            Head(chans'[h].buf).Status \notin Terminal]_vars

\* -----------------------------------------------------------------
\* Increments concurrent with UpdateStatus and UpdateProgress
\* -----------------------------------------------------------------

\* a call of IncrementArticlesAdded takes one of its two steps
Increments(c) == caller'[c] # caller[c]

\* every update run r has published came from UpdateStatus
OnlyStatusPublished(r) ==
    \/ gh[r].last = NoUpdate
    \/ \E s \in StatusSites \ {"cancelled2"} :
          gh[r].last.Message = StatusSite(r)[s].message

\* C39: IncrementArticlesAdded, UpdateStatus and UpdateProgress running in
\* different tasks lose no increment: none of their steps lowers
\* ArticlesAdded, and when they have returned the count is the number of
\* calls of IncrementArticlesAdded.
C39_NoLostIncrement ==
    /\ [][((\E r \in Runs : WritesStatus(r) \/ WritesProgress(r))
              \/ \E c \in Callers : Increments(c)) =>
                current'.ArticlesAdded >= current.ArticlesAdded]_vars
    /\ []((/\ NoCallInFlight
           /\ \A r \in Runs : update[r] = NoUpdate /\ OnlyStatusPublished(r)) =>
                current.ArticlesAdded = Calls)

\* -----------------------------------------------------------------
\* The order of the messages of a stream
\* -----------------------------------------------------------------

\* C40: the mailbox of a subscriber is a queue of tracker states: it starts
\* with the state at the time of subscribing, an update is put behind the
\* messages already waiting (or dropped), the handler takes the message at
\* the front, and the mailbox never holds more than ChanCap messages.  So
\* the messages received are, in order, a subsequence of the states the
\* tracker took.
C40_MailboxInOrder ==
    /\ [](\A h \in Subs : Len(chans[h].buf) <= ChanCap)
    /\ [][\A h \in Subs :
            \/ chans'[h].buf = chans[h].buf
            \/ /\ spc[h] = "idle" /\ spc'[h] = "streaming"
               /\ chans'[h].buf = <<current>>
            \/ /\ Registered(h) /\ listeners' = listeners
               /\ chans'[h].buf = Append(chans[h].buf, current')
            \/ /\ chans[h].buf # <<>> /\ current' = current
               /\ chans'[h].buf = Tail(chans[h].buf)
               /\ sh'[h].first \in {sh[h].first, Head(chans[h].buf)}
            \/ /\ Registered(h) /\ ~Registered(h)'
               /\ chans'[h].buf = <<>>]_vars

\* a stream has read its first message, its mailbox is full again and the
\* run's last update was dropped
C40_Witness ==
    \E h \in Subs :
        /\ Registered(h)
        /\ sh[h].first # NoUpdate
        /\ Len(chans[h].buf) = ChanCap
        /\ chans[h].buf[ChanCap] # current
====
